---- MODULE Spec2Model ----
(***************************************************************************)
(* Model of the document retrieval core of agno-docs-mcp:                  *)
(*   utils/paths.py   - sandboxed path resolution, listings                *)
(*   utils/content.py - frontmatter parsing, snippet inlining              *)
(*   utils/search.py  - index cache and keyword ranking                    *)
(*   tools/docs.py    - the docs operation and its not-found fallback      *)
(* Text is modelled as TLA+ strings, character by character; a pathlib     *)
(* Path is the sequence of its parts below "/".                            *)
(***************************************************************************)
EXTENDS Integers, Sequences, FiniteSets, TLC

VARIABLES
    restaged,        \* what was added to and removed from the staged tree since start
    snippet_cache,   \* content.py _snippet_cache: fragment name -> resolved text
    mdx_file_cache,  \* search.py _mdx_file_cache: str(base_dir) -> list of files
    call,            \* the operation last invoked, with its arguments
    ret,             \* what that operation returned (or the exception it raised)
    requests         \* the requests that threads are serving: where each one stands

vars == <<restaged, snippet_cache, mdx_file_cache, call, ret, requests>>

(***************************************************************************)
(* Bounds of the model.                                                    *)
(***************************************************************************)
\* Longest caller-supplied path, in segments.
MaxSegs == 3
\* POSIX NAME_MAX of the host file system: a longer component makes stat()
\* fail with ENAMETOOLONG.
NameMax == 255
\* Longest raw document text, in lines.
MaxLines == 4
\* Most pieces (markers or text) in a document handed to resolve_snippets.
MaxPieces == 2
\* Most keywords in one search.
MaxKeywords == 2
\* Largest limit of a search, besides the default.
MaxLimit == 2
\* segments of a requested document path
MaxDocSegs == 2

(***************************************************************************)
(* Python str operations.                                                  *)
(***************************************************************************)
\* s[a-1:b] clamped to the string, as Python slices are
Slice(s, a, b) ==
    LET lo == IF a < 1 THEN 1 ELSE a
        hi == IF b > Len(s) THEN Len(s) ELSE b
    IN  IF lo > hi THEN SubSeq(s, 1, 0) ELSE SubSeq(s, lo, hi)

Char(s, i) == Slice(s, i, i)

StartsWith(s, p) == Len(p) <= Len(s) /\ Slice(s, 1, Len(p)) = p

EndsWith(s, p) == Len(p) <= Len(s) /\ Slice(s, Len(s) - Len(p) + 1, Len(s)) = p

\* sub in s
Contains(s, sub) ==
    \E i \in 1..(Len(s) - Len(sub) + 1) : SubSeq(s, i, i + Len(sub) - 1) = sub

\* the positions where sub occurs in s
Occurrences(s, sub) ==
    {i \in 1..(Len(s) - Len(sub) + 1) : SubSeq(s, i, i + Len(sub) - 1) = sub}

FirstOf(positions) ==
    IF positions = {} THEN 0 ELSE CHOOSE i \in positions : \A j \in positions : i <= j

LastOf(positions) ==
    IF positions = {} THEN 0 ELSE CHOOSE i \in positions : \A j \in positions : i >= j

\* s.find(sub), 1-based; 0 when absent
Find(s, sub) == FirstOf(Occurrences(s, sub))

\* s.rfind(sub), 1-based; 0 when absent
RFind(s, sub) == LastOf(Occurrences(s, sub))

Whitespace == {" ", "\t", "\n", "\r"}

\* the first position from i on whose character is not in cs; Len(s) + 1 if none
RECURSIVE FirstOutside(_, _, _)
FirstOutside(s, i, cs) ==
    IF i > Len(s) \/ Char(s, i) \notin cs THEN i ELSE FirstOutside(s, i + 1, cs)

\* the last position up to i whose character is not in cs; 0 if none
RECURSIVE LastOutside(_, _, _)
LastOutside(s, i, cs) ==
    IF i < 1 \/ Char(s, i) \notin cs THEN i ELSE LastOutside(s, i - 1, cs)

\* s.strip(chars) for a set of characters
StripChars(s, cs) ==
    LET a == FirstOutside(s, 1, cs)
        b == LastOutside(s, Len(s), cs)
    IN  IF a > b THEN "" ELSE Slice(s, a, b)

\* s.strip()
Strip(s) == StripChars(s, Whitespace)

\* s.split(sep) for a one-character separator
RECURSIVE Split(_, _)
Split(s, sep) ==
    LET i == Find(s, sep)
    IN  IF i = 0 THEN <<s>>
        ELSE <<Slice(s, 1, i - 1)>> \o Split(Slice(s, i + 1, Len(s)), sep)

\* sep.join(parts)
RECURSIVE Join(_, _)
Join(parts, sep) ==
    IF Len(parts) = 0 THEN ""
    ELSE IF Len(parts) = 1 THEN parts[1]
    ELSE parts[1] \o sep \o Join(Tail(parts), sep)

UpperChars == "ABCDEFGHIJKLMNOPQRSTUVWXYZ"
LowerChars == "abcdefghijklmnopqrstuvwxyz"

\* the lower-case letter of each upper-case letter
ToLower ==
    [c \in {Char(UpperChars, i) : i \in 1..Len(UpperChars)} |->
        Char(LowerChars, CHOOSE i \in 1..Len(UpperChars) : Char(UpperChars, i) = c)]

LowerChar(c) == IF c \in DOMAIN ToLower THEN ToLower[c] ELSE c

\* s.lower()
RECURSIVE Lower(_)
Lower(s) ==
    IF Len(s) = 0 THEN ""
    ELSE LowerChar(SubSeq(s, 1, 1)) \o Lower(SubSeq(s, 2, Len(s)))

\* c * n
RECURSIVE Repeat(_, _)
Repeat(c, n) ==
    IF n <= 0 THEN ""
    ELSE IF n = 1 THEN c
    ELSE Repeat(c, n \div 2) \o Repeat(c, n - (n \div 2))

\* the elements of a sequence
Range(f) == {f[i] : i \in DOMAIN f}

\* the sequences over S of length at most n
SeqsUpTo(S, n) == UNION {[1..k -> S] : k \in 0..n}

(***************************************************************************)
(* The file system.  A node is a directory or a file; mode "none" is a     *)
(* directory or file the serving user has no permission on.  There are no  *)
(* symbolic links in the staged tree.                                      *)
(***************************************************************************)
\* paths.py get_package_root
PackageRoot == <<"pkg">>

\* paths.py get_docs_base_dir: <package root>/.docs/raw
DocsBaseDir == PackageRoot \o <<".docs", "raw">>

\* content.py get_snippets_dir: <docs base dir>/../snippets
SnippetsDir == PackageRoot \o <<".docs", "snippets">>

\* a directory next to the documentation root whose name extends the root's
SiblingDir == PackageRoot \o <<".docs", "raw2">>

\* another documentation root, as a caller of resolve_doc_path may pass one
OtherBaseDir == PackageRoot \o <<".docs", "other">>

Dir(p) == [path |-> p, kind |-> "dir", mode |-> "rwx", text |-> ""]
LockedDir(p) == [path |-> p, kind |-> "dir", mode |-> "none", text |-> ""]
File(p, t) == [path |-> p, kind |-> "file", mode |-> "rwx", text |-> t]
LockedFile(p, t) == [path |-> p, kind |-> "file", mode |-> "none", text |-> t]

\* a marker as the documentation writes it: <Snippet file="name" />
Marker(name) == "<Snippet file=\"" \o name \o "\" />"

DocNodes ==
    { Dir(DocsBaseDir \o <<"basics">>),
      Dir(DocsBaseDir \o <<"basics", "agents">>),
      File(DocsBaseDir \o <<"basics", "agents", "overview.mdx">>,
           "---\ntitle: Agents Overview\n---\n# Agents\nstreaming support\n"),
      File(DocsBaseDir \o <<"basics", "teams.mdx">>,
           "# Teams\nTeams of agents\nStreaming title\n" \o Marker("plain.mdx") \o "\n"),
      LockedFile(DocsBaseDir \o <<"basics", "agents", "draft.mdx">>, "streaming draft\n"),
      File(DocsBaseDir \o <<"x.mdx">>, "x Agents\nthe Agents\n"),
      File(DocsBaseDir \o <<"intro.md">>, "plain intro\nAgents streaming\n"),
      File(DocsBaseDir \o <<"notes.txt">>, "streaming agents\n"),
      LockedDir(DocsBaseDir \o <<"private">>),
      File(DocsBaseDir \o <<"private", "in.mdx">>, "streaming\n") }

OutsideNodes ==
    { Dir(SiblingDir),
      File(SiblingDir \o <<"secret.mdx">>, "secret agents\n") }

\* the other root: a document whose name has a dot, and a document next to
\* a directory of its name
OtherNodes ==
    { Dir(OtherBaseDir),
      File(OtherBaseDir \o <<"v1.2.mdx">>, "# Version 1.2\n"),
      Dir(OtherBaseDir \o <<"guide">>),
      File(OtherBaseDir \o <<"guide.mdx">>, "# Guide\n"),
      File(OtherBaseDir \o <<"faq.mdx">>, "# FAQ\n"),
      File(OtherBaseDir \o <<"getting_started-now.mdx">>,
           "---\ndescription: First steps\n---\n# Start\n") }

\* reusable fragments: one that includes itself, one that includes itself
\* twice, two that include each other, one with a header, one unreadable
SnippetNodes ==
    { File(SnippetsDir \o <<"self.mdx">>, "me " \o Marker("self.mdx") \o "\n"),
      File(SnippetsDir \o <<"twice.mdx">>,
           Marker("twice.mdx") \o "+" \o Marker("twice.mdx")),
      File(SnippetsDir \o <<"a.mdx">>, "A" \o Marker("b")),
      File(SnippetsDir \o <<"b.mdx">>, "B" \o Marker("a.mdx")),
      File(SnippetsDir \o <<"plain.mdx">>, "---\ntitle: P\n---\n plain\n"),
      LockedFile(SnippetsDir \o <<"locked.mdx">>, "locked\n") }

BaseNodes ==
    { Dir(<< >>), Dir(PackageRoot), Dir(PackageRoot \o <<".docs">>),
      Dir(DocsBaseDir), Dir(SnippetsDir) }

\* the tree as staged before the server starts
Tree0 == BaseNodes \cup DocNodes \cup OutsideNodes \cup OtherNodes \cup SnippetNodes

\* nothing has been staged anew since the server started
Untouched == restaged.removed = {} /\ restaged.added = {}

\* the file system now: a set of nodes (directories and files)
tree ==
    IF Untouched THEN Tree0
    ELSE {n \in Tree0 : n.path \notin restaged.removed} \cup restaged.added

\* the staged tree by path
Staged0 == [p \in {n.path : n \in Tree0} |-> CHOOSE n \in Tree0 : n.path = p]

HasNode(p) == IF Untouched THEN p \in DOMAIN Staged0 ELSE \E n \in tree : n.path = p

NodeAt(p) == IF Untouched THEN Staged0[p] ELSE CHOOSE n \in tree : n.path = p

Parent(p) == IF Len(p) = 0 THEN p ELSE Slice(p, 1, Len(p) - 1)

\* the character standing for the NUL byte, which no system call accepts
Nul == "~"

\* stat(2) on the path with parts `rest` below the directory `cur`: the kernel
\* walks the parts one by one.  Returns the errno and, on success, the node.
RECURSIVE Walk(_, _)
Walk(cur, rest) ==
    IF Len(rest) = 0 THEN [err |-> "OK", at |-> cur]
    ELSE IF NodeAt(cur).kind # "dir" THEN [err |-> "ENOTDIR", at |-> cur]
    ELSE IF NodeAt(cur).mode = "none" THEN [err |-> "EACCES", at |-> cur]
    ELSE IF Head(rest) = ".." THEN Walk(Parent(cur), Tail(rest))
    ELSE IF Len(Head(rest)) > NameMax THEN [err |-> "ENAMETOOLONG", at |-> cur]
    ELSE IF ~HasNode(cur \o <<Head(rest)>>) THEN [err |-> "ENOENT", at |-> cur]
    ELSE Walk(cur \o <<Head(rest)>>, Tail(rest))

\* os.stat(path); an embedded NUL is refused with ValueError before any call
Stat(p) ==
    IF \E i \in DOMAIN p : Contains(p[i], Nul)
    THEN [err |-> "ValueError", at |-> << >>]
    ELSE Walk(<< >>, p)

\* pathlib._ignore_error: the errnos that exists()/is_dir()/is_file() turn
\* into False; any other OSError propagates to the caller
IgnoredErrnos == {"ENOENT", "ENOTDIR", "EBADF", "ELOOP", "ValueError"}

\* Path.exists(): "yes", "no", or the exception raised
PathExists(p) ==
    LET st == Stat(p)
    IN  IF st.err = "OK" THEN "yes"
        ELSE IF st.err \in IgnoredErrnos THEN "no"
        ELSE IF st.err = "EACCES" THEN "PermissionError" ELSE "OSError"

\* Path.is_dir()
PathIsDir(p) ==
    LET st == Stat(p)
    IN  IF st.err = "OK" THEN (IF NodeAt(st.at).kind = "dir" THEN "yes" ELSE "no")
        ELSE IF st.err \in IgnoredErrnos THEN "no"
        ELSE IF st.err = "EACCES" THEN "PermissionError" ELSE "OSError"

\* Path.is_file()
PathIsFile(p) ==
    LET st == Stat(p)
    IN  IF st.err = "OK" THEN (IF NodeAt(st.at).kind = "file" THEN "yes" ELSE "no")
        ELSE IF st.err \in IgnoredErrnos THEN "no"
        ELSE IF st.err = "EACCES" THEN "PermissionError" ELSE "OSError"

(***************************************************************************)
(* pathlib.                                                                *)
(***************************************************************************)
\* the parts of a path string: empty and "." components are dropped
PathParts(s) == SelectSeq(Split(s, "/"), LAMBDA x : x # "" /\ x # ".")

\* base / s : an absolute right operand replaces the left one
PathJoin(base, s) == IF StartsWith(s, "/") THEN PathParts(s) ELSE base \o PathParts(s)

\* str(path)
PathStr(p) == "/" \o Join(p, "/")

\* Path.name
PathName(p) == IF Len(p) = 0 THEN "" ELSE p[Len(p)]

\* Path.suffix: the last dot of the name and what follows it, unless the dot
\* is the first or the last character
PathSuffix(p) ==
    LET name == PathName(p)
        i == RFind(name, ".")
    IN  IF 1 < i /\ i < Len(name) THEN Slice(name, i, Len(name)) ELSE ""

\* Path.with_suffix(suffix)
WithSuffix(p, suffix) ==
    LET name == PathName(p)
        old == PathSuffix(p)
        stem == Slice(name, 1, Len(name) - Len(old))
    IN  Parent(p) \o <<stem \o suffix>>

\* Path.resolve() without symbolic links: ".." removes the part before it
RECURSIVE Normalize(_, _)
Normalize(done, rest) ==
    IF Len(rest) = 0 THEN done
    ELSE IF Head(rest) = ".." THEN Normalize(Parent(done), Tail(rest))
    ELSE Normalize(done \o <<Head(rest)>>, Tail(rest))

\* Path.resolve(): the canonical path, or ValueError for an embedded NUL
PathResolve(p) ==
    IF \E i \in DOMAIN p : Contains(p[i], Nul)
    THEN [ok |-> FALSE, path |-> p]
    ELSE [ok |-> TRUE, path |-> Normalize(<< >>, p)]

(***************************************************************************)
(* utils/paths.py                                                          *)
(***************************************************************************)
is_safe_path(base_dir, target_path) ==
    LET rb == PathResolve(base_dir)
        rt == PathResolve(target_path)
    IN  IF rb.ok /\ rt.ok
        THEN StartsWith(PathStr(rt.path), PathStr(rb.path))
        ELSE FALSE

Returned(p, found) == [raised |-> "", path |-> p, found |-> found]
Raised(exc) == [raised |-> exc, path |-> << >>, found |-> FALSE]

resolve_doc_path(doc_path, base_dir) ==
    LET clean_path == Strip(StripChars(doc_path, {"/"}))
        full_path == PathJoin(base_dir, clean_path)
        mdx_path == WithSuffix(full_path, ".mdx")
        md_path == WithSuffix(full_path, ".md")
    IN  IF clean_path = "" THEN Returned(base_dir, TRUE)
        ELSE IF ~is_safe_path(base_dir, full_path) THEN Returned(full_path, FALSE)
        ELSE IF PathExists(full_path) \notin {"yes", "no"} THEN Raised(PathExists(full_path))
        ELSE IF PathExists(full_path) = "yes" THEN Returned(full_path, TRUE)
        ELSE IF PathExists(mdx_path) \notin {"yes", "no"} THEN Raised(PathExists(mdx_path))
        ELSE IF PathExists(mdx_path) = "yes" THEN Returned(mdx_path, TRUE)
        ELSE IF PathExists(md_path) \notin {"yes", "no"} THEN Raised(PathExists(md_path))
        ELSE IF PathExists(md_path) = "yes" THEN Returned(md_path, TRUE)
        ELSE Returned(full_path, FALSE)

(***************************************************************************)
(* utils/content.py: frontmatter.                                          *)
(***************************************************************************)
\* re.search(r"\n---\s*\n", rest): whether a match starts at position i.  The
\* greedy \s* runs over all white space after the dashes, so the match ends at
\* the last newline of that run.
MatchEndAt(rest, i) ==
    IF Slice(rest, i, i + 3) # "\n---" THEN 0
    ELSE LET run == CHOOSE j \in (i + 3)..Len(rest) :
                        /\ \A k \in (i + 4)..j : Char(rest, k) \in Whitespace
                        /\ (j = Len(rest) \/ Char(rest, j + 1) \notin Whitespace)
             nls == {k \in (i + 4)..run : Char(rest, k) = "\n"}
         IN  IF nls = {} THEN 0 ELSE CHOOSE k \in nls : \A m \in nls : m <= k

\* the leftmost match: [start, end] are the positions of its first and last
\* character in rest, start = 0 when there is none
ClosingMatch(rest) ==
    LET starts == {i \in 1..Len(rest) : MatchEndAt(rest, i) # 0}
    IN  IF starts = {} THEN [start |-> 0, end |-> 0]
        ELSE LET i == CHOOSE x \in starts : \A y \in starts : x <= y
             IN  [start |-> i, end |-> MatchEndAt(rest, i)]

\* the lines of a header that are not blank
HeaderLines(text) == SelectSeq(Split(text, "\n"), LAMBDA l : Strip(l) # "")

\* a "key: value" line of a block mapping
IsKeyValue(line) ==
    LET i == Find(line, ":")
    IN  /\ i > 1
        /\ Char(line, 1) \notin Whitespace
        /\ (i = Len(line) \/ Char(line, i + 1) = " ")

YamlKey(line) == Slice(line, 1, Find(line, ":") - 1)

\* the scalar after the colon, without surrounding blanks and double quotes
YamlValue(line) ==
    LET v == Strip(Slice(line, Find(line, ":") + 1, Len(line)))
    IN  IF Len(v) >= 2 /\ Char(v, 1) = "\"" /\ Char(v, Len(v)) = "\""
        THEN Slice(v, 2, Len(v) - 1) ELSE v

\* yaml.safe_load on the headers of this model: block mappings of plain or
\* double-quoted scalars, and plain text.
\*   no line at all           -> None
\*   only key: value lines    -> a dict (a later duplicate key wins)
\*   only plain lines         -> a str (the lines folded with blanks)
\*   a mix, or "a: b: c"      -> yaml.YAMLError
YamlSafeLoad(text) ==
    LET ls == HeaderLines(text)
        kv == {i \in DOMAIN ls : IsKeyValue(ls[i])}
    IN  IF Len(ls) = 0 THEN [type |-> "none", val |-> << >>]
        ELSE IF \E i \in kv : Contains(YamlValue(ls[i]), ": ")
             THEN [type |-> "error", val |-> << >>]
        ELSE IF kv = DOMAIN ls
             THEN [type |-> "dict",
                   val |-> [k \in {YamlKey(ls[i]) : i \in kv} |->
                              YamlValue(ls[CHOOSE i \in kv :
                                  /\ YamlKey(ls[i]) = k
                                  /\ \A j \in kv : YamlKey(ls[j]) = k => j <= i])]]
        ELSE IF kv = {}
             THEN [type |-> "str",
                   val |-> Join([i \in DOMAIN ls |-> Strip(ls[i])], " ")]
        ELSE [type |-> "error", val |-> << >>]

\* {}
EmptyDict == [type |-> "dict", val |-> << >>]

\* parse_frontmatter with the opening-delimiter test left out
parse_frontmatter_any_start(content) ==
    LET rest == Slice(content, 4, Len(content))
        end_match == ClosingMatch(rest)
        loaded == YamlSafeLoad(Slice(rest, 1, end_match.start - 1))
    IN  IF end_match.start = 0 THEN [frontmatter |-> EmptyDict, body |-> content]
        ELSE [frontmatter |-> IF loaded.type \in {"none", "error"} THEN EmptyDict ELSE loaded,
              body |-> Slice(rest, end_match.end + 1, Len(rest))]

\* parse_frontmatter that drops the opening dashes when no closing line follows
parse_frontmatter_cut_open(content) ==
    LET rest == Slice(content, 4, Len(content))
        end_match == ClosingMatch(rest)
        loaded == YamlSafeLoad(Slice(rest, 1, end_match.start - 1))
    IN  IF ~StartsWith(content, "---") THEN [frontmatter |-> EmptyDict, body |-> content]
        ELSE IF end_match.start = 0 THEN [frontmatter |-> EmptyDict, body |-> rest]
        ELSE [frontmatter |-> IF loaded.type \in {"none", "error"} THEN EmptyDict ELSE loaded,
              body |-> Slice(rest, end_match.end + 1, Len(rest))]

\* parse_frontmatter(content) -> (frontmatter, remaining_content)
parse_frontmatter(content) ==
    LET rest == Slice(content, 4, Len(content))
        end_match == ClosingMatch(rest)
        frontmatter_str == Slice(rest, 1, end_match.start - 1)
        remaining_content == Slice(rest, end_match.end + 1, Len(rest))
        loaded == YamlSafeLoad(frontmatter_str)
    IN  IF ~StartsWith(content, "---") THEN [frontmatter |-> EmptyDict, body |-> content]
        ELSE IF end_match.start = 0 THEN [frontmatter |-> EmptyDict, body |-> content]
        ELSE [frontmatter |->
                  \* yaml.safe_load(...) or {} ; except yaml.YAMLError: {}
                  IF loaded.type \in {"none", "error"} THEN EmptyDict ELSE loaded,
              body |-> remaining_content]

(***************************************************************************)
(* utils/content.py: snippet inlining.                                     *)
(***************************************************************************)
\* def resolve_snippets(content, max_depth: int = 3)
DefaultMaxDepth == 3

\* the longest run of white space that starts at position i; its last position
SpaceRunEnd(s, i) ==
    CHOOSE j \in (i - 1)..Len(s) :
        /\ \A k \in i..j : Char(s, k) \in Whitespace
        /\ (j = Len(s) \/ Char(s, j + 1) \notin Whitespace)

Quotes == {"\"", "'"}

\* no match of the pattern
NoMatch == [start |-> 0, end |-> 0, file |-> ""]

\* ([^"']+)["']: the position of the first quote after position q
NameEnd(s, q) ==
    CHOOSE j \in (q + 1)..(Len(s) + 1) :
        /\ \A k \in (q + 1)..(j - 1) : Char(s, k) \notin Quotes
        /\ (j = Len(s) + 1 \/ Char(s, j) \in Quotes)

\* /?>: the position where ">" has to stand
TagClose(s, after) == IF Char(s, after) = "/" THEN after + 1 ELSE after

\* ...>: the tag is closed at gt
MatchClose(s, i, start, close, gt) ==
    IF Char(s, gt) # ">" THEN NoMatch
    ELSE [start |-> i, end |-> gt, file |-> Slice(s, start, close - 1)]

\* ...([^"']+)["']\s*/?>: the name begins at start and the next quote is at close
MatchName(s, i, start, close) ==
    IF close > Len(s) \/ close = start THEN NoMatch
    ELSE MatchClose(s, i, start, close, TagClose(s, SpaceRunEnd(s, close + 1) + 1))

\* ...\s+file=["']...: the white space after "<Snippet" ends at ws
MatchAttribute(s, i, ws) ==
    IF \/ ws < i + 8
       \/ Lower(Slice(s, ws + 1, ws + 5)) # "file="
       \/ Char(s, ws + 6) \notin Quotes
    THEN NoMatch
    ELSE MatchName(s, i, ws + 7, NameEnd(s, ws + 6))

\* re.compile(r'<Snippet\s+file=["\']([^"\']+)["\']\s*/?>', re.IGNORECASE)
\* matched at position i: where the match starts and ends and the file name
\* it captures, or NoMatch
SnippetMatchAt(s, i) ==
    IF Lower(Slice(s, i, i + 7)) # "<snippet" THEN NoMatch
    ELSE MatchAttribute(s, i, SpaceRunEnd(s, i + 8))

RECURSIVE NextSnippet(_, _)

\* the match tried at pos, or the next one after it
MatchOrNext(s, pos, mt) == IF mt.end # 0 THEN mt ELSE NextSnippet(s, pos + 1)

\* the first match of the pattern at or after pos, NoMatch if none
NextSnippet(s, pos) ==
    IF pos > Len(s) THEN NoMatch
    ELSE IF Char(s, pos) = "<" THEN MatchOrNext(s, pos, SnippetMatchAt(s, pos))
    ELSE NextSnippet(s, pos + 1)

\* os.strerror(errno) as str(OSError) shows it
Strerror ==
    [ ENOENT |-> "[Errno 2] No such file or directory",
      EACCES |-> "[Errno 13] Permission denied",
      ENOTDIR |-> "[Errno 20] Not a directory",
      EISDIR |-> "[Errno 21] Is a directory",
      ENAMETOOLONG |-> "[Errno 36] File name too long" ]

\* str(e) for the OSError that a system call on the path p raises
OSErrorStr(errno, p) == Strerror[errno] \o ": '" \o PathStr(p) \o "'"

\* str(e) for the exception that Path.exists() lets through
ExistsErrorStr(exc, p) ==
    IF exc = "PermissionError" THEN OSErrorStr("EACCES", p)
    ELSE OSErrorStr("ENAMETOOLONG", p)

\* Path.read_text(): the text, or the OSError raised and its str(e)
ReadText(p) ==
    LET st == Stat(p)
    IN  IF st.err = "ValueError" THEN [err |-> "OSError", text |-> "embedded null byte"]
        ELSE IF st.err # "OK" THEN [err |-> "OSError", text |-> OSErrorStr(st.err, p)]
        ELSE IF NodeAt(st.at).kind = "dir"
        THEN [err |-> "IsADirectoryError", text |-> OSErrorStr("EISDIR", p)]
        ELSE IF NodeAt(st.at).mode = "none"
        THEN [err |-> "PermissionError", text |-> OSErrorStr("EACCES", p)]
        ELSE [err |-> "", text |-> NodeAt(st.at).text]

\* _snippet_cache[name] = text
CachePut(cache, name, text) ==
    [n \in DOMAIN cache \cup {name} |-> IF n = name THEN text ELSE cache[n]]

\* The progress of one resolve_snippets call tree: the cache as it is now,
\* and what has been done so far.
\*   subs    markers replaced (by a cached value, an expansion or a comment)
\*   reads   the fragment files read and expanded, in order
\*   writes  the names stored in the cache, in order
\*   deepest the deepest nesting of resolve_snippets calls, the outermost
\*           call being level 0
Progress0(cache) ==
    [cache |-> cache, subs |-> 0, reads |-> << >>, writes |-> << >>, deepest |-> 0]

\* resolve_snippets whose recursion floor is one level too low
resolve_snippets_floor_off_by_one(max_depth) == max_depth < 0

\* resolve_snippets: "if max_depth <= 0: return content"
AtFloor(max_depth) == max_depth <= 0

RECURSIVE resolve_snippets_at(_, _, _, _)
RECURSIVE SubFrom(_, _, _, _, _)

\* "<!-- Snippet {snippet_file} could not be loaded -->", the marker replaced
CouldNotBeLoaded(snippet_file, pr) ==
    [raised |-> "",
     text |-> "<!-- Snippet " \o snippet_file \o " could not be loaded -->",
     pr |-> [pr EXCEPT !.subs = @ + 1]]

\* replace_snippet after the nested resolve_snippets call: an exception of
\* the nested call (every one of this model is an OSError) is caught; the
\* result is stored and returned
replace_resolved(snippet_file, inner) ==
    IF inner.raised # "" THEN CouldNotBeLoaded(snippet_file, inner.pr)
    ELSE [raised |-> "", text |-> inner.text,
          pr |-> [inner.pr EXCEPT
                    !.cache = CachePut(@, snippet_file, inner.text),
                    !.writes = Append(@, snippet_file),
                    !.subs = @ + 1]]

\* replace_snippet after snippet_path.read_text()
replace_read(snippet_file, max_depth, pr, level, snippet_path, read) ==
    IF read.err # "" THEN CouldNotBeLoaded(snippet_file, pr)
    ELSE replace_resolved(snippet_file,
            resolve_snippets_at(Strip(parse_frontmatter(read.text).body),
                                max_depth - 1,
                                [pr EXCEPT !.reads = Append(@, snippet_path)],
                                level + 1))

\* replace_snippet after the second snippet_path.exists()
replace_existing(snippet_file, max_depth, pr, level, snippet_path, exists) ==
    IF exists \notin {"yes", "no"}
    THEN [raised |-> exists, text |-> ExistsErrorStr(exists, snippet_path), pr |-> pr]
    ELSE IF exists = "no"
    THEN [raised |-> "",
          text |-> "<!-- Snippet " \o snippet_file \o " not found -->",
          pr |-> [pr EXCEPT !.subs = @ + 1]]
    ELSE replace_read(snippet_file, max_depth, pr, level, snippet_path,
                      ReadText(snippet_path))

\* replace_snippet once the path to try is known
replace_at(snippet_file, max_depth, pr, level, snippet_path) ==
    replace_existing(snippet_file, max_depth, pr, level, snippet_path,
                     PathExists(snippet_path))

\* replace_snippet after the first snippet_path.exists(): without the file,
\* a name that does not end in .mdx is tried with .mdx added
replace_first(snippet_file, max_depth, pr, level, first_exists) ==
    IF first_exists \notin {"yes", "no"}
    THEN [raised |-> first_exists,
          text |-> ExistsErrorStr(first_exists, PathJoin(SnippetsDir, snippet_file)),
          pr |-> pr]
    ELSE IF first_exists = "no" /\ ~EndsWith(snippet_file, ".mdx")
    THEN replace_at(snippet_file, max_depth, pr, level,
                    PathJoin(SnippetsDir, snippet_file \o ".mdx"))
    ELSE replace_at(snippet_file, max_depth, pr, level,
                    PathJoin(SnippetsDir, snippet_file))

\* replace_snippet(match) for the marker naming snippet_file
replace_snippet(snippet_file, max_depth, pr, level) ==
    IF snippet_file \in DOMAIN pr.cache
    THEN [raised |-> "", text |-> pr.cache[snippet_file],
          pr |-> [pr EXCEPT !.subs = @ + 1]]
    ELSE replace_first(snippet_file, max_depth, pr, level,
                       PathExists(PathJoin(SnippetsDir, snippet_file)))

\* the text before the marker and its replacement, then the rest
SubJoin(head, rest) ==
    IF rest.raised # "" THEN rest
    ELSE [raised |-> "", text |-> head \o rest.text, pr |-> rest.pr]

\* re.sub with the marker mt replaced by rep
SubReplaced(content, pos, max_depth, level, mt, rep) ==
    IF rep.raised # "" THEN rep
    ELSE SubJoin(Slice(content, pos, mt.start - 1) \o rep.text,
                 SubFrom(content, mt.end + 1, max_depth, rep.pr, level))

\* re.sub at the next marker mt
SubMatch(content, pos, max_depth, pr, level, mt) ==
    IF mt.end = 0
    THEN [raised |-> "", text |-> Slice(content, pos, Len(content)), pr |-> pr]
    ELSE SubReplaced(content, pos, max_depth, level, mt,
                     replace_snippet(mt.file, max_depth, pr, level))

\* snippet_pattern.sub(replace_snippet, content) from position pos on
SubFrom(content, pos, max_depth, pr, level) ==
    SubMatch(content, pos, max_depth, pr, level, NextSnippet(content, pos))

\* resolve_snippets(content, max_depth), called at nesting level `level`
resolve_snippets_at(content, max_depth, pr, level) ==
    IF AtFloor(max_depth)
    THEN [raised |-> "", text |-> content,
          pr |-> [pr EXCEPT !.deepest = IF level > @ THEN level ELSE @]]
    ELSE SubFrom(content, 1, max_depth,
                 [pr EXCEPT !.deepest = IF level > @ THEN level ELSE @], level)

\* resolve_snippets(content, max_depth) as a caller invokes it
resolve_snippets(content, max_depth, cache) ==
    resolve_snippets_at(content, max_depth, Progress0(cache), 0)

(***************************************************************************)
(* utils/search.py                                                         *)
(***************************************************************************)
\* def search_documents(keywords, base_dir, limit: int = 10)
DefaultLimit == 10

\* s.replace(a, b) for one-character a
RECURSIVE Replace(_, _, _)
Replace(s, a, b) ==
    IF Len(s) <= 1 THEN (IF s = a THEN b ELSE s)
    ELSE Replace(SubSeq(s, 1, Len(s) \div 2), a, b)
         \o Replace(SubSeq(s, (Len(s) \div 2) + 1, Len(s)), a, b)

\* Path(string) for the string of an absolute path
PathOf(str) == PathParts(str)

\* str(file_path.relative_to(base_dir)).replace("\\", "/")
RelativeTo(file_path, base_dir) ==
    Replace(Join(Slice(file_path, Len(base_dir) + 1, Len(file_path)), "/"), "\\", "/")

\* dir_path.iterdir(): the entries of a directory
Entries(dir_path) ==
    {n \in tree : Len(n.path) = Len(dir_path) + 1 /\ Parent(n.path) = dir_path}

DocSuffixes == {".mdx", ".md"}

RECURSIVE ScanEntries(_)
RECURSIVE ScanDir(_)

\* _scan_dir on one entry: a directory is scanned, a document is recorded
ScanEntry(entry) ==
    IF entry.kind = "dir" THEN ScanDir(entry.path)
    ELSE IF PathSuffix(entry.path) \in DocSuffixes THEN {<<PathStr(entry.path)>>}
    ELSE {<< >>}

\* what _scan_dir can add to files_found for the entries rem: iterdir()
\* yields them in an order the file system chooses
ScanEntries(rem) ==
    IF rem = {} THEN {<< >>}
    ELSE UNION {{first \o rest : first \in ScanEntry(entry),
                                 rest \in ScanEntries(rem \ {entry})} : entry \in rem}

\* _scan_dir(dir_path): PermissionError on a directory is swallowed
ScanDir(dir_path) ==
    IF NodeAt(dir_path).mode = "none" THEN {<< >>}
    ELSE ScanEntries(Entries(dir_path))

Walked(files, scanned) == [raised |-> "", files |-> files, scanned |-> scanned]

\* _scan_dir(base_dir) after the stat that iterdir() starts with
ScanBase(base_dir, st) ==
    IF st.err = "EACCES" THEN {Walked(<< >>, TRUE)}
    ELSE IF st.err = "ENOENT"
    THEN {[raised |-> "FileNotFoundError", files |-> << >>, scanned |-> FALSE]}
    ELSE IF st.err = "ENOTDIR"
    THEN {[raised |-> "NotADirectoryError", files |-> << >>, scanned |-> FALSE]}
    ELSE IF st.err = "ValueError"
    THEN {[raised |-> "ValueError", files |-> << >>, scanned |-> FALSE]}
    ELSE IF st.err # "OK"
    THEN {[raised |-> "OSError", files |-> << >>, scanned |-> FALSE]}
    ELSE IF NodeAt(st.at).kind # "dir"
    THEN {[raised |-> "NotADirectoryError", files |-> << >>, scanned |-> FALSE]}
    ELSE {Walked(files, TRUE) : files \in ScanDir(st.at)}

\* walk_mdx_files(base_dir): the listings it can yield, from the cache when
\* the key is there, from a scan otherwise
walk_mdx_files(base_dir, cache) ==
    IF PathStr(base_dir) \in DOMAIN cache
    THEN {Walked(cache[PathStr(base_dir)], FALSE)}
    ELSE ScanBase(base_dir, Stat(base_dir))

HighValueDirs ==
    { "agents", "teams", "workflows", "tools", "memory",
      "knowledge", "models", "agentos", "integrations" }

\* calculate_path_relevance on the lower-cased path
PathRelevanceOf(path_lower, keywords) ==
    (IF StartsWith(path_lower, "reference/") THEN 2 ELSE 0)
    + 3 * Cardinality({k \in DOMAIN keywords : Contains(path_lower, Lower(keywords[k]))})
    + (IF \E d \in HighValueDirs : Contains(path_lower, d) THEN 1 ELSE 0)

calculate_path_relevance(file_path, keywords) == PathRelevanceOf(Lower(file_path), keywords)

\* calculate_final_score without the two terms for the matched keywords
final_score_without_keyword_terms(score, total_keywords) ==
    score.total_matches * 1 + score.title_matches * 3 + score.path_relevance * 2

calculate_final_score(score, total_keywords) ==
    score.total_matches * 1
    + score.title_matches * 3
    + score.path_relevance * 2
    + Cardinality(score.keyword_matches) * 5
    + (IF Cardinality(score.keyword_matches) = total_keywords THEN 10 ELSE 0)

\* x.lower() for every x of a list
RECURSIVE LowerAll(_)
LowerAll(seq) ==
    IF Len(seq) = 0 THEN << >> ELSE <<Lower(Head(seq))>> \o LowerAll(Tail(seq))

\* "if keyword.lower() in line_lower", for each line and each keyword: the
\* pairs (line, keyword) that match
Hits(lines_lower, keywords_lower) ==
    {h \in (DOMAIN lines_lower) \X (DOMAIN keywords_lower) :
        Contains(lines_lower[h[1]], keywords_lower[h[2]])}

\* a title line that must start with the heading marker
title_line_by_heading_only(line, line_lower) == StartsWith(line, "#")

\* line.startswith("#") or "title" in line_lower
IsTitleLine(line, line_lower) == StartsWith(line, "#") \/ Contains(line_lower, "title")

\* search_documents that gives every document it reads an entry
scores_every_document(hits) == TRUE

\* a FileScore is created at the first matching pair only
HasEntry(hits) == hits # {}

\* the FileScore of a document after all its lines, none if nothing matched
ScoreHits(relative_path, lines, lines_lower, keywords, hits) ==
    IF ~HasEntry(hits) THEN << >>
    ELSE << [path |-> relative_path,
             keyword_matches |-> {keywords[h[2]] : h \in hits},
             total_matches |-> Cardinality(hits),
             title_matches |->
                Cardinality({h \in hits : IsTitleLine(lines[h[1]], lines_lower[h[1]])}),
             path_relevance |-> calculate_path_relevance(relative_path, keywords)] >>

\* the loop over the lines and the keywords, line.lower() taken once a line
ScoreLowered(relative_path, lines, lines_lower, keywords) ==
    ScoreHits(relative_path, lines, lines_lower, keywords,
              Hits(lines_lower, LowerAll(keywords)))

ScoreLines(relative_path, lines, keywords) ==
    ScoreLowered(relative_path, lines, LowerAll(lines), keywords)

\* one turn of the loop over the files: an unreadable file is skipped
ScoreRead(file_path, read, keywords, base_dir) ==
    IF read.err # "" THEN << >>
    ELSE ScoreLines(RelativeTo(file_path, base_dir), Split(read.text, "\n"), keywords)

ScoreFile(file_path, keywords, base_dir) ==
    ScoreRead(file_path, ReadText(file_path), keywords, base_dir)

\* file_scores.values() after the loop, in insertion order
RECURSIVE ScoreFiles(_, _, _)
ScoreFiles(files, keywords, base_dir) ==
    IF Len(files) = 0 THEN << >>
    ELSE ScoreFile(PathOf(Head(files)), keywords, base_dir)
         \o ScoreFiles(Tail(files), keywords, base_dir)

\* sorted(..., reverse=True) is stable: a score goes behind the scores that
\* are not smaller
InsertRanked(ranked, score, ahead) ==
    Slice(ranked, 1, ahead) \o <<score>> \o Slice(ranked, ahead + 1, Len(ranked))

RECURSIVE Ranked(_, _)
RECURSIVE ranked_with_ties_reversed(_, _)

\* a sort that puts a score ahead of the equal scores before it
ranked_with_ties_reversed(scores, total_keywords) ==
    IF Len(scores) = 0 THEN << >>
    ELSE InsertRanked(ranked_with_ties_reversed(Slice(scores, 1, Len(scores) - 1), total_keywords),
                      scores[Len(scores)],
                      Cardinality({i \in 1..(Len(scores) - 1) :
                          calculate_final_score(scores[i], total_keywords)
                              > calculate_final_score(scores[Len(scores)], total_keywords)}))

Ranked(scores, total_keywords) ==
    IF Len(scores) = 0 THEN << >>
    ELSE InsertRanked(Ranked(Slice(scores, 1, Len(scores) - 1), total_keywords),
                      scores[Len(scores)],
                      Cardinality({i \in 1..(Len(scores) - 1) :
                          calculate_final_score(scores[i], total_keywords)
                              >= calculate_final_score(scores[Len(scores)], total_keywords)}))

\* search_documents that keeps one entry more than the limit
truncate_one_more(ranked_files, limit) == Slice(ranked_files, 1, limit + 1)

\* ranked_files[:limit]
Truncate(ranked_files, limit) ==
    IF limit >= 0 THEN Slice(ranked_files, 1, limit)
    ELSE Slice(ranked_files, 1, Len(ranked_files) + limit)

\* search_documents after the loop over the files
RankAndTruncate(ranked_files, limit) ==
    [raised |-> "",
     paths |-> [i \in DOMAIN Truncate(ranked_files, limit) |-> ranked_files[i].path],
     ranked |-> ranked_files]

\* search_documents(keywords, base_dir, limit) on the listing walked
search_documents(keywords, base_dir, limit, walked) ==
    IF Len(keywords) = 0 THEN [raised |-> "", paths |-> << >>, ranked |-> << >>]
    ELSE IF walked.raised # "" THEN [raised |-> walked.raised, paths |-> << >>, ranked |-> << >>]
    ELSE RankAndTruncate(Ranked(ScoreFiles(walked.files, keywords, base_dir), Len(keywords)),
                         limit)

(***************************************************************************)
(* utils/paths.py: directory listings.                                     *)
(***************************************************************************)
\* the characters of the file names of this model, by code point
CodePoints == " -./0123456789" \o UpperChars \o "_" \o LowerChars \o "~"

\* ord(c)
Ord ==
    [c \in {Char(CodePoints, i) : i \in 1..Len(CodePoints)} |->
        CHOOSE i \in 1..Len(CodePoints) : Char(CodePoints, i) = c]

\* a < b for two str
RECURSIVE StrLess(_, _)
StrLess(a, b) ==
    IF Len(b) = 0 THEN FALSE
    ELSE IF Len(a) = 0 THEN TRUE
    ELSE IF SubSeq(a, 1, 1) = SubSeq(b, 1, 1)
    THEN StrLess(SubSeq(a, 2, Len(a)), SubSeq(b, 2, Len(b)))
    ELSE Ord[SubSeq(a, 1, 1)] < Ord[SubSeq(b, 1, 1)]

RECURSIVE Sorted(_)

\* the smallest name first, then the others
SortedFrom(names, first) == <<first>> \o Sorted(names \ {first})

\* sorted(names) for names that differ from each other
Sorted(names) ==
    IF names = {} THEN << >>
    ELSE SortedFrom(names, CHOOSE x \in names : \A y \in names : x = y \/ StrLess(x, y))

\* the character U+0060
Backquote == SubSeq("`'", 1, 1)

\* DirectoryContents(dirs, files)
DirectoryContents(dirs, files) == [raised |-> "", dirs |-> dirs, files |-> files]

\* the loop of list_directory over the entries, and the two sorts
ListEntries(entries) ==
    DirectoryContents(
        Sorted({PathName(e.path) \o "/" : e \in {n \in entries : n.kind = "dir"}}),
        Sorted({PathName(e.path) : e \in {n \in entries :
                    n.kind = "file" /\ PathSuffix(n.path) \in DocSuffixes}}))

\* dir_path.iterdir(): PermissionError ends the loop before its first turn
ListDir(dir) ==
    IF dir.mode = "none" THEN DirectoryContents(<< >>, << >>)
    ELSE ListEntries(Entries(dir.path))

\* list_directory after dir_path.is_dir()
ListChecked(dir_path, is_dir) ==
    IF is_dir \notin {"yes", "no"} THEN [raised |-> is_dir, dirs |-> << >>, files |-> << >>]
    ELSE IF is_dir = "no" THEN DirectoryContents(<< >>, << >>)
    ELSE ListDir(NodeAt(Stat(dir_path).at))

list_directory(dir_path) == ListChecked(dir_path, PathIsDir(dir_path))

RECURSIVE NearestFrom(_, _)

\* one turn of the loop of find_nearest_directory, after test_path.is_dir()
NearestChecked(parts, base_dir, test_path, is_dir) ==
    IF is_dir \notin {"yes", "no"} THEN [raised |-> is_dir, dir |-> << >>, label |-> ""]
    ELSE IF is_dir = "yes"
    THEN [raised |-> "", dir |-> test_path, label |-> Join(parts, "/")]
    ELSE NearestFrom(Slice(parts, 1, Len(parts) - 1), base_dir)

NearestAt(parts, base_dir, test_path) ==
    NearestChecked(parts, base_dir, test_path, PathIsDir(test_path))

\* "while parts:" of find_nearest_directory, and the return after it
NearestFrom(parts, base_dir) ==
    IF Len(parts) = 0 THEN [raised |-> "", dir |-> base_dir, label |-> ""]
    ELSE NearestAt(parts, base_dir, PathJoin(base_dir, Join(parts, "/")))

find_nearest_directory(doc_path, base_dir) ==
    NearestFrom(Split(StripChars(doc_path, {"/"}), "/"), base_dir)

(***************************************************************************)
(* utils/content.py: documents and their formatting.                       *)
(***************************************************************************)
\* what read_mdx_file returns, and the snippet cache it leaves
Document(frontmatter, body, cache) ==
    [frontmatter |-> frontmatter, body |-> body, cache |-> cache]

\* read_mdx_file after resolve_snippets(body): the exceptions that
\* resolve_snippets lets through are OSErrors
ReadResolved(parsed, resolved) ==
    IF resolved.raised # ""
    THEN Document(EmptyDict, "Error reading file: " \o resolved.text, resolved.pr.cache)
    ELSE Document(parsed.frontmatter, resolved.text, resolved.pr.cache)

\* read_mdx_file after parse_frontmatter(content)
ReadParsed(parsed, cache) ==
    ReadResolved(parsed, resolve_snippets(parsed.body, DefaultMaxDepth, cache))

\* read_mdx_file after file_path.read_text()
ReadFile(read, cache) ==
    IF read.err # "" THEN Document(EmptyDict, "Error reading file: " \o read.text, cache)
    ELSE ReadParsed(parse_frontmatter(read.text), cache)

read_mdx_file(file_path, cache) == ReadFile(ReadText(file_path), cache)

\* frontmatter.get(key, default) on a dict
Get(frontmatter, key, default) ==
    IF key \in DOMAIN frontmatter.val THEN frontmatter.val[key] ELSE default

\* one bullet for each name: a dash, then the prefix and the name between
\* backquotes
Bullets(prefix, names) ==
    [i \in DOMAIN names |-> "- " \o Backquote \o prefix \o names[i] \o Backquote]

Formatted(text, cache) == [raised |-> "", text |-> text, cache |-> cache]

Failed(exc, cache) == [raised |-> exc, text |-> "", cache |-> cache]

\* the head of a directory listing: the two lists, or the lines saying that
\* a list is empty
ListingHead(relative_path, contents) ==
    << "Directory contents of " \o Backquote
           \o (IF relative_path = "" THEN "/" ELSE relative_path) \o Backquote \o ":", "" >>
    \o (IF Len(contents.dirs) > 0
        THEN <<"**Subdirectories:**">> \o Bullets("", contents.dirs) \o <<"">>
        ELSE <<"No subdirectories.", "">>)
    \o (IF Len(contents.files) > 0
        THEN <<"**Files in this directory:**">> \o Bullets("", contents.files) \o <<"">>
        ELSE <<"No files in this directory.", "">>)

\* the lines that format_directory_listing adds for one file
FileSection(title, relative_path, file_name, content) ==
    << "## " \o title,
       "*File: " \o Backquote \o relative_path \o "/" \o file_name \o Backquote \o "*",
       "", Strip(content), "", "---", "" >>

RECURSIVE FileSections(_, _, _, _)

SectionsJoin(section, rest) ==
    IF rest.raised # "" THEN rest
    ELSE [raised |-> "", lines |-> section \o rest.lines, cache |-> rest.cache]

\* one turn of the loop over the files, after read_mdx_file: .get is called
\* on whatever parse_frontmatter returned
SectionsRead(dir_path, relative_path, files, doc) ==
    IF doc.frontmatter.type # "dict"
    THEN [raised |-> "AttributeError", lines |-> << >>, cache |-> doc.cache]
    ELSE SectionsJoin(
            FileSection(Get(doc.frontmatter, "title", Head(files)),
                        relative_path, Head(files), doc.body),
            FileSections(dir_path, relative_path, Tail(files), doc.cache))

\* "for file_name in contents.files:" of format_directory_listing
FileSections(dir_path, relative_path, files, cache) ==
    IF Len(files) = 0 THEN [raised |-> "", lines |-> << >>, cache |-> cache]
    ELSE SectionsRead(dir_path, relative_path, files,
                      read_mdx_file(PathJoin(dir_path, Head(files)), cache))

\* "\n".join(lines) of format_directory_listing
ListingJoined(head, sections) ==
    IF sections.raised # "" THEN Failed(sections.raised, sections.cache)
    ELSE Formatted(Join(head \o sections.lines, "\n"), sections.cache)

\* format_directory_listing after list_directory(dir_path)
ListingOf(dir_path, relative_path, contents, cache) ==
    IF contents.raised # "" THEN Failed(contents.raised, cache)
    ELSE IF Len(contents.files) = 0
    THEN Formatted(Join(ListingHead(relative_path, contents), "\n"), cache)
    ELSE ListingJoined(
            ListingHead(relative_path, contents)
                \o <<"---", "", "**Contents of all files in this directory:**", "">>,
            FileSections(dir_path, relative_path, contents.files, cache))

format_directory_listing(dir_path, relative_path, cache) ==
    ListingOf(dir_path, relative_path, list_directory(dir_path), cache)

\* format_file_content with the file name without its suffix as the title
\* of a document that has none
file_content_titled_by_stem(file_path, relative_path, doc) ==
    IF doc.frontmatter.type # "dict" THEN Failed("AttributeError", doc.cache)
    ELSE Formatted(
            Join(<< "# " \o Get(doc.frontmatter, "title",
                               Slice(PathName(file_path), 1,
                                     Len(PathName(file_path)) - Len(PathSuffix(file_path)))),
                    "*File: " \o Backquote \o relative_path \o Backquote \o "*" >>
                 \o (IF Get(doc.frontmatter, "description", "") # ""
                     THEN <<"*" \o Get(doc.frontmatter, "description", "") \o "*">>
                     ELSE << >>)
                 \o <<"", Strip(doc.body)>>, "\n"),
            doc.cache)

\* format_file_content after read_mdx_file(file_path)
FileContent(file_path, relative_path, doc) ==
    IF doc.frontmatter.type # "dict" THEN Failed("AttributeError", doc.cache)
    ELSE Formatted(
            Join(<< "# " \o Get(doc.frontmatter, "title", PathName(file_path)),
                    "*File: " \o Backquote \o relative_path \o Backquote \o "*" >>
                 \o (IF Get(doc.frontmatter, "description", "") # ""
                     THEN <<"*" \o Get(doc.frontmatter, "description", "") \o "*">>
                     ELSE << >>)
                 \o <<"", Strip(doc.body)>>, "\n"),
            doc.cache)

format_file_content(file_path, relative_path, cache) ==
    FileContent(file_path, relative_path, read_mdx_file(file_path, cache))

\* suggestions[:10]
MaxSuggestions == 10

\* format_not_found_error that leaves the entries of the directory out
listing_block_left_out(heading, nearest_path, names) == << >>

\* format_not_found_error: a heading and the entries under it, each with the
\* nearest path before it, when there are entries
ListingBlock(heading, nearest_path, names) ==
    IF Len(names) = 0 THEN << >>
    ELSE <<heading>>
         \o Bullets(IF nearest_path # "" THEN nearest_path \o "/" ELSE "", names)
         \o <<"">>

format_not_found_error(doc_path, nearest_path, contents, suggestions) ==
    Join(<< "Path " \o Backquote \o doc_path \o Backquote \o " not found.", "",
            IF nearest_path # ""
            THEN "Here are the available paths in " \o Backquote \o nearest_path
                 \o Backquote \o ":"
            ELSE "Here are the available top-level paths:",
            "" >>
         \o ListingBlock("**Directories:**", nearest_path, contents.dirs)
         \o ListingBlock("**Files:**", nearest_path, contents.files)
         \o (IF Len(suggestions) > 0
             THEN <<"---", "", "**Suggested paths based on your query:**">>
                  \o Bullets("", Slice(suggestions, 1, MaxSuggestions))
             ELSE << >>),
         "\n")

(***************************************************************************)
(* utils/search.py: suggestions.                                           *)
(***************************************************************************)
\* re.sub(r"\.(mdx|md)$", "", filename): "$" also matches before a final
\* newline
WithoutDocSuffix(filename) ==
    IF EndsWith(filename, ".mdx") THEN Slice(filename, 1, Len(filename) - 4)
    ELSE IF EndsWith(filename, ".md") THEN Slice(filename, 1, Len(filename) - 3)
    ELSE IF EndsWith(filename, ".mdx\n") THEN Slice(filename, 1, Len(filename) - 5) \o "\n"
    ELSE IF EndsWith(filename, ".md\n") THEN Slice(filename, 1, Len(filename) - 4) \o "\n"
    ELSE filename

\* re.split(r"[-_]|(?=[A-Z])", s) with part read so far: a part ends at a
\* hyphen or an underscore, and before an upper-case letter
RECURSIVE NameParts(_, _)
NameParts(s, part) ==
    IF Len(s) = 0 THEN <<part>>
    ELSE IF SubSeq(s, 1, 1) \in {"-", "_"}
    THEN <<part>> \o NameParts(SubSeq(s, 2, Len(s)), "")
    ELSE IF SubSeq(s, 1, 1) \in DOMAIN ToLower
    THEN <<part>> \o NameParts(SubSeq(s, 2, Len(s)), SubSeq(s, 1, 1))
    ELSE NameParts(SubSeq(s, 2, Len(s)), part \o SubSeq(s, 1, 1))

\* the lists that list(a_set) can be: the order is that of the hash table
Orders(S) == {s \in [1..Cardinality(S) -> S] : Range(s) = S}

\* the keywords that extract_keywords_from_path collects, as a set
PathKeywords(parts) ==
    {Strip(Lower(parts[i])) : i \in {j \in DOMAIN parts : Len(Strip(Lower(parts[j]))) > 2}}

extract_keywords_from_every_segment(path) ==
    Orders(UNION {PathKeywords(NameParts(WithoutDocSuffix(Split(path, "/")[i]), "")) :
                    i \in DOMAIN Split(path, "/")})

extract_keywords_from_path(path) ==
    Orders(PathKeywords(
        NameParts(WithoutDocSuffix(Split(path, "/")[Len(Split(path, "/"))]), "")))

\* the first position from i on whose character is in cs; Len(s) + 1 if none
RECURSIVE FirstInside(_, _, _)
FirstInside(s, i, cs) ==
    IF i > Len(s) \/ Char(s, i) \in cs THEN i ELSE FirstInside(s, i + 1, cs)

RECURSIVE WordsFrom(_, _)

\* the word from a up to the white space at b, and the words after it
WordTo(s, a, b) == <<Slice(s, a, b - 1)>> \o WordsFrom(s, FirstOutside(s, b, Whitespace))

WordsFrom(s, a) ==
    IF a > Len(s) THEN << >> ELSE WordTo(s, a, FirstInside(s, a, Whitespace))

\* s.split()
Words(s) == WordsFrom(s, FirstOutside(s, 1, Whitespace))

\* the keywords that normalize_keywords collects, as a set
NormalizedSet(keywords) ==
    UNION {{Lower(w) : w \in Range(Words(keywords[i]))} : i \in DOMAIN keywords}

normalize_keywords(keywords) == Orders(NormalizedSet(keywords))

Matching(raised, text, searched) ==
    [raised |-> raised, text |-> text, searched |-> searched]

\* get_matching_paths after search_documents(all_keywords, base_dir)
Suggested(found) ==
    IF found.raised # "" THEN Matching(found.raised, "", FALSE)
    ELSE IF Len(found.paths) = 0 THEN Matching("", "", TRUE)
    ELSE Matching("", "**Suggested paths based on your query:**\n\n"
                          \o Join(Bullets("", found.paths), "\n"), TRUE)

\* get_matching_paths once all_keywords is known
MatchingFor(all_keywords, base_dir, walked) ==
    IF Len(all_keywords) = 0 THEN Matching("", "", FALSE)
    ELSE Suggested(search_documents(all_keywords, base_dir, DefaultLimit, walked))

\* get_matching_paths(doc_path, query_keywords, base_dir): what it can
\* return, walk_mdx_files yielding the listing walked
get_matching_paths(doc_path, query_keywords, base_dir, walked) ==
    {MatchingFor(all_keywords, base_dir, walked) :
        all_keywords \in UNION {normalize_keywords(path_keywords \o query_keywords) :
                                 path_keywords \in extract_keywords_from_path(doc_path)}}

(***************************************************************************)
(* tools/docs.py                                                           *)
(***************************************************************************)
\* what one _fetch_single_path call does: the exception it raises or the
\* text it returns, the snippet cache it leaves, whether it has walked the
\* documents
Fetched(raised, text, cache, searched) ==
    [raised |-> raised, text |-> text, cache |-> cache, searched |-> searched]

\* f"## {doc_path}\n\n{content}"
Titled(doc_path, content) == "## " \o doc_path \o "\n\n" \o content

\* the not-found branch after search_documents(query_keywords, base_dir, limit=10)
NotFoundSuggested(doc_path, nearest, contents, cache, found) ==
    IF found.raised # "" THEN Fetched(found.raised, "", cache, FALSE)
    ELSE Fetched("", Titled(doc_path, format_not_found_error(
                                doc_path, nearest.label, contents, found.paths)),
                 cache, TRUE)

\* the not-found branch after list_directory(nearest_dir)
NotFoundListed(doc_path, query_keywords, base_dir, cache, walked, nearest, contents) ==
    IF contents.raised # "" THEN Fetched(contents.raised, "", cache, FALSE)
    ELSE IF Len(query_keywords) = 0
    THEN Fetched("", Titled(doc_path, format_not_found_error(
                                doc_path, nearest.label, contents, << >>)),
                 cache, FALSE)
    ELSE NotFoundSuggested(doc_path, nearest, contents, cache,
            search_documents(query_keywords, base_dir, DefaultLimit, walked))

\* the not-found branch after find_nearest_directory(doc_path, base_dir)
NotFound(doc_path, query_keywords, base_dir, cache, walked, nearest) ==
    IF nearest.raised # "" THEN Fetched(nearest.raised, "", cache, FALSE)
    ELSE NotFoundListed(doc_path, query_keywords, base_dir, cache, walked, nearest,
                        list_directory(nearest.dir))

\* the directory branch with the suggestions of get_matching_paths
WithSuggestions(doc_path, listed, suggestions) ==
    IF suggestions.raised # ""
    THEN Fetched(suggestions.raised, "", listed.cache, FALSE)
    ELSE Fetched("", Titled(doc_path,
                        listed.text \o (IF suggestions.text # ""
                                        THEN "\n\n" \o suggestions.text ELSE "")),
                 listed.cache, suggestions.searched)

\* the directory branch after format_directory_listing
FoundDirectory(doc_path, query_keywords, base_dir, walked, listed) ==
    IF listed.raised # "" THEN {Fetched(listed.raised, "", listed.cache, FALSE)}
    ELSE IF Len(query_keywords) = 0
    THEN {Fetched("", Titled(doc_path, listed.text), listed.cache, FALSE)}
    ELSE {WithSuggestions(doc_path, listed, suggestions) :
            suggestions \in get_matching_paths(doc_path, query_keywords, base_dir, walked)}

\* the file branch after format_file_content
FoundFile(formatted) ==
    Fetched(formatted.raised, formatted.text, formatted.cache, FALSE)

\* "if resolved_path.exists():" after resolved_path.is_dir()
Found(doc_path, query_keywords, base_dir, cache, walked, resolved_path, relative_path, is_dir) ==
    IF is_dir \notin {"yes", "no"} THEN {Fetched(is_dir, "", cache, FALSE)}
    ELSE IF is_dir = "yes"
    THEN FoundDirectory(doc_path, query_keywords, base_dir, walked,
            format_directory_listing(resolved_path, relative_path, cache))
    ELSE {FoundFile(format_file_content(resolved_path, relative_path, cache))}

\* doc_path.strip("/") or "/"
RelativePath(doc_path) ==
    IF StripChars(doc_path, {"/"}) = "" THEN "/" ELSE StripChars(doc_path, {"/"})

\* _fetch_single_path after resolved_path.exists()
FetchChecked(doc_path, query_keywords, base_dir, cache, walked, resolved_path, exists) ==
    IF exists \notin {"yes", "no"} THEN {Fetched(exists, "", cache, FALSE)}
    ELSE IF exists = "yes"
    THEN Found(doc_path, query_keywords, base_dir, cache, walked, resolved_path,
               RelativePath(doc_path), PathIsDir(resolved_path))
    ELSE {NotFound(doc_path, query_keywords, base_dir, cache, walked,
                   find_nearest_directory(doc_path, base_dir))}

\* "if not is_valid and resolved_path != base_dir:" and, inside it,
\* "if not is_safe_path(base_dir, resolved_path):"
SecurityViolation(base_dir, resolved) ==
    /\ ~resolved.found
    /\ resolved.path # base_dir
    /\ ~is_safe_path(base_dir, resolved.path)

\* _fetch_single_path after resolve_doc_path(doc_path, base_dir)
FetchResolved(doc_path, query_keywords, base_dir, cache, walked, resolved) ==
    IF resolved.raised # "" THEN {Fetched(resolved.raised, "", cache, FALSE)}
    ELSE IF SecurityViolation(base_dir, resolved)
    THEN {Fetched("", Titled(doc_path, "Invalid path."), cache, FALSE)}
    ELSE FetchChecked(doc_path, query_keywords, base_dir, cache, walked, resolved.path,
                      PathExists(resolved.path))

\* _fetch_single_path(doc_path, query_keywords, base_dir): what it can do
\* on the snippet cache given, walk_mdx_files yielding the listing walked.
\* No keywords (None or an empty list) is the empty sequence.
fetch_single_path(doc_path, query_keywords, base_dir, cache, walked) ==
    FetchResolved(doc_path, query_keywords, base_dir, cache, walked,
                  resolve_doc_path(doc_path, base_dir))

(***************************************************************************)
(* Caller-supplied paths: up to MaxSegs segments joined by "/", with an    *)
(* optional leading and trailing separator or blank.                       *)
(***************************************************************************)
SegNames ==
    { "..", "basics", "agents", "overview", "x", "x.mdx", "intro", "nope",
      "raw2", "secret", "private" }

\* what a caller may put before and after the segments
Wraps == { <<"", "">>, <<"/", "/">>, <<" /", " ">> }

PathsOver(names, wraps, n) ==
    { w[1] \o Join(segs, "/") \o w[2] :
        w \in wraps, segs \in SeqsUpTo(names, n) }

\* a component longer than NAME_MAX, and a path with an embedded NUL
LongName == Repeat("a", NameMax + 1)
\* a name the file system takes, but not with a documentation suffix added
NearLongName == Repeat("a", NameMax - 2)
OddPaths ==
    { LongName, "basics/" \o LongName, NearLongName, "no" \o Nul, "basics/no" \o Nul,
      "private/in", "private/in.mdx", "basics/agents/overview.mdx" }

PathInputs == PathsOver(SegNames, Wraps, MaxSegs) \cup OddPaths

\* paths asked of the other root
OtherPathInputs ==
    { "v1.2", "v1.2.mdx", "guide", "guide.mdx", "guide/", "faq", "faq.mdx", "nope", "" }

\* the calls of resolve_doc_path: a path and the root it is asked of
ResolveInputs ==
    (PathInputs \X {DocsBaseDir}) \cup (OtherPathInputs \X {OtherBaseDir})

(***************************************************************************)
(* Raw document texts: up to MaxLines lines, with or without a final       *)
(* newline.                                                                *)
(***************************************************************************)
RawLines == { "---", "--- ", "title: T", "x", "", "a: b: c" }

RawInputs ==
    { Join(ls, "\n") \o nl : ls \in SeqsUpTo(RawLines, MaxLines), nl \in {"", "\n"} }

(***************************************************************************)
(* Documents with snippet markers: up to MaxPieces pieces.                 *)
(***************************************************************************)
SnippetNames == { "self.mdx", "twice.mdx", "a.mdx", "b", "nope", "locked.mdx" }

\* a fragment name that no file system entry can have
LongFragment == Repeat("n", NameMax + 1)

Pieces == { Marker(n) : n \in SnippetNames } \cup { "<snippet  file='plain'>" }

SnippetInputs ==
    { Join(ps, " and ") : ps \in SeqsUpTo(Pieces, MaxPieces) }
    \cup { Marker(LongFragment), "see " \o Marker(LongFragment) \o " and " \o Marker("nope") }
    \cup { Marker("../raw/x.mdx"), Marker("/pkg/.docs/raw2/secret.mdx"), Marker("../nope") }

(***************************************************************************)
(* Searches: up to MaxKeywords keywords, a root, a limit.                  *)
(***************************************************************************)
KeywordNames == { "streaming", "Agents", "zzz" }

KeywordLists == SeqsUpTo(KeywordNames, MaxKeywords)

\* small limits, and the default that the tools pass
Limits == (0..MaxLimit) \cup {DefaultLimit}

\* the documentation root, a directory of it, a directory that is not
\* there, a directory the serving user may not read
SearchRoots ==
    { DocsBaseDir, DocsBaseDir \o <<"basics">>, DocsBaseDir \o <<"missing">>,
      DocsBaseDir \o <<"private">> }

(***************************************************************************)
(* Requests for documents: a path of up to MaxDocSegs segments without     *)
(* keywords, or one of a few paths with or without keywords.               *)
(***************************************************************************)
DocSegNames == { "..", "basics", "agents", "overview", "nope", "x", "raw2" }

\* paths to the root, a directory, a file, and to nothing below each of
\* them; traversals; paths written with blanks; paths the serving user may
\* not read
WrittenPaths ==
    { "", "basics", "basics/", "nope", "basics/nope", "basics/agents/nope",
      "basics/agents/overview", "basics/agents/draft", "basics/teams.mdx/nope",
      "..", "../nope", "../raw2/nope", "basics/../nope", " basics/nope",
      "basics/nope ", "intro", "private", "private/in" }

DocPathInputs ==
    PathsOver(DocSegNames, {<<"", "">>, <<"/", "/">>}, MaxDocSegs) \cup WrittenPaths

\* a keyword that documents have, a keyword that none has
DocKeywordLists == { <<"streaming">>, <<"zzz">> }

\* a request: the path and the keywords, none being the empty list
DocRequests ==
    (DocPathInputs \X {<< >>}) \cup (WrittenPaths \X DocKeywordLists)

(***************************************************************************)
(* Operations.                                                             *)
(***************************************************************************)
Init ==
    /\ restaged = [added |-> {}, removed |-> {}]
    /\ snippet_cache = << >>
    /\ mdx_file_cache = << >>
    /\ call = [op |-> "none"]
    /\ ret = [raised |-> ""]
    /\ requests = << >>

\* resolve(path, root) for the documentation root
Resolve(p, base_dir) ==
    /\ call.op = "none"
    /\ call' = [op |-> "resolve_doc_path", doc_path |-> p, base_dir |-> base_dir]
    /\ ret' = resolve_doc_path(p, base_dir)
    /\ UNCHANGED <<restaged, snippet_cache, mdx_file_cache, requests>>

\* parseFrontmatter(raw)
ParseFrontmatter(raw) ==
    /\ call.op = "none"
    /\ call' = [op |-> "parse_frontmatter", content |-> raw]
    /\ ret' = parse_frontmatter(raw)
    /\ UNCHANGED <<restaged, snippet_cache, mdx_file_cache, requests>>

\* parseFrontmatter applied to the body that the previous parse returned
ParseAgain ==
    /\ call.op = "parse_frontmatter"
    /\ call' = [op |-> "parse_frontmatter_again", content |-> ret.body,
                raw |-> call.content]
    /\ ret' = parse_frontmatter(ret.body)
    /\ UNCHANGED <<restaged, snippet_cache, mdx_file_cache, requests>>

NextFrontmatter ==
    \/ call.op = "none" /\ \E raw \in RawInputs : ParseFrontmatter(raw)
    \/ ParseAgain

SpecFrontmatter == Init /\ [][NextFrontmatter]_vars

\* the calls made so far in this run
Calls == IF call.op = "none" THEN 0 ELSE call.n

\* resolve_snippets(content, max_depth) on the process-wide cache
ResolveSnippets(content, max_depth) ==
    \E r \in {resolve_snippets(content, max_depth, snippet_cache)} :
        /\ call' = [op |-> "resolve_snippets", content |-> content,
                    max_depth |-> max_depth, n |-> Calls + 1,
                    cache |-> snippet_cache]
        /\ ret' = [raised |-> r.raised, text |-> r.text, subs |-> r.pr.subs,
                   reads |-> r.pr.reads, writes |-> r.pr.writes,
                   deepest |-> r.pr.deepest]
        /\ snippet_cache' = r.pr.cache
        /\ UNCHANGED <<restaged, mdx_file_cache, requests>>

\* a call on an empty cache; after a first call on one piece at the default
\* depth, a second call on the cache that the first one left
NextSnippets ==
    \/ /\ call.op = "none"
       /\ \E content \in SnippetInputs, max_depth \in 0..DefaultMaxDepth :
            ResolveSnippets(content, max_depth)
    \/ /\ call.op = "resolve_snippets" /\ call.n = 1
       /\ call.content \in Pieces /\ call.max_depth = DefaultMaxDepth
       /\ \E content \in SnippetInputs, max_depth \in 0..DefaultMaxDepth :
            ResolveSnippets(content, max_depth)

SpecSnippets == Init /\ [][NextSnippets]_vars

\* search_documents(keywords, base_dir, limit) on the process-wide index
\* cache, walk_mdx_files yielding the listing walked; walk_mdx_files is not
\* reached for an empty keyword list
SearchDocuments(keywords, base_dir, limit, walked) ==
    \E r \in {search_documents(keywords, base_dir, limit, walked)} :
        /\ call' = [op |-> "search_documents", keywords |-> keywords,
                    base_dir |-> base_dir, limit |-> limit, n |-> Calls + 1]
        /\ ret' = r
        /\ mdx_file_cache' =
             IF Len(keywords) > 0 /\ walked.scanned
             THEN CachePut(mdx_file_cache, PathStr(base_dir), walked.files)
             ELSE mdx_file_cache
        /\ UNCHANGED <<restaged, snippet_cache, requests>>

\* a search; after a first search for one keyword at the default limit, a
\* second search of the same root at the default limit
NextSearch ==
    \/ /\ call.op = "none"
       /\ \E base_dir \in SearchRoots :
          \E walked \in walk_mdx_files(base_dir, mdx_file_cache) :
          \E keywords \in KeywordLists, limit \in Limits :
            SearchDocuments(keywords, base_dir, limit, walked)
    \/ /\ call.op = "search_documents" /\ call.n = 1
       /\ Len(call.keywords) = 1 /\ call.limit = DefaultLimit
       /\ \E walked \in walk_mdx_files(call.base_dir, mdx_file_cache) :
          \E keywords \in KeywordLists :
            SearchDocuments(keywords, call.base_dir, DefaultLimit, walked)

SpecSearch == Init /\ [][NextSearch]_vars

\* what a run of the prepare step can do to the staged tree while the
\* server is up: a document more and two less, or a root that was not there
Restagings ==
    { [added |-> {File(DocsBaseDir \o <<"new.mdx">>, "# Streaming Agents\n")},
       removed |-> {DocsBaseDir \o <<"x.mdx">>, DocsBaseDir \o <<"intro.md">>}],
      [added |-> {File(DocsBaseDir \o <<"basics", "agents", "late.mdx">>, "streaming Agents\n")},
       removed |-> {}],
      [added |-> {Dir(DocsBaseDir \o <<"missing">>),
                  File(DocsBaseDir \o <<"missing", "late.mdx">>, "streaming Agents\n")},
       removed |-> {}] }

\* copy_docs stages the documents anew
Restage(staging) ==
    /\ Untouched
    /\ restaged' = staging
    /\ UNCHANGED <<snippet_cache, mdx_file_cache, call, ret, requests>>

\* the roots and the keywords of the searches around a restaging
IndexRoots == { DocsBaseDir, DocsBaseDir \o <<"missing">> }

IndexKeywordLists == { << >>, <<"streaming">>, <<"Agents">> }

\* Most searches of a run with a restaging.
MaxSearches == 2

\* searches at the default limit, the documents staged anew once between
\* two of them
NextIndex ==
    \/ /\ Calls < MaxSearches
       /\ \E base_dir \in IndexRoots :
          \E walked \in walk_mdx_files(base_dir, mdx_file_cache) :
          \E keywords \in IndexKeywordLists :
            SearchDocuments(keywords, base_dir, DefaultLimit, walked)
    \/ /\ Calls \in 1..(MaxSearches - 1)
       /\ \E staging \in Restagings : Restage(staging)

SpecIndex == Init /\ [][NextIndex]_vars

(***************************************************************************)
(* tools/agentos.py and tools/reference.py                                 *)
(***************************************************************************)
\* base_dir / "agent-os" and base_dir / "reference"
AgentOSDir == DocsBaseDir \o <<"agent-os">>

ReferenceDir == DocsBaseDir \o <<"reference">>

\* the AgentOS and the reference sections as the prepare step stages them
SectionNodes ==
    { Dir(AgentOSDir),
      File(AgentOSDir \o <<"overview.mdx">>, "# AgentOS\nstreaming runtime\n"),
      Dir(AgentOSDir \o <<"features">>),
      File(AgentOSDir \o <<"features", "security.mdx">>, "---\ntitle: Security\n---\nkeys\n"),
      Dir(ReferenceDir),
      Dir(ReferenceDir \o <<"agents">>),
      File(ReferenceDir \o <<"agents", "agent.mdx">>, "# Agent\nstreaming parameter\n"),
      File(ReferenceDir \o <<"teams.mdx">>, "# Team\n") }

\* the server started on a tree that has the two sections
InitSections ==
    /\ restaged = [added |-> SectionNodes, removed |-> {}]
    /\ snippet_cache = << >>
    /\ mdx_file_cache = << >>
    /\ call = [op |-> "none"]
    /\ ret = [raised |-> ""]
    /\ requests = << >>

\* what one call of a section tool does: the exception it raises or the text
\* it returns, the snippet cache it leaves, the root it has walked for
\* documents (if any), and the locations whose listing or content is in the text
Served(raised, text, cache, walked_root, shown) ==
    [raised |-> raised, text |-> text, cache |-> cache,
     walked_root |-> walked_root, shown |-> shown]

\* s.replace(old, new) for a non-empty old
RECURSIVE ReplaceAll(_, _, _)
ReplaceAll(s, old, new) ==
    IF Find(s, old) = 0 THEN s
    ELSE Slice(s, 1, Find(s, old) - 1) \o new
         \o ReplaceAll(Slice(s, Find(s, old) + Len(old), Len(s)), old, new)

\* s.rstrip(chars)
RStripChars(s, cs) == Slice(s, 1, LastOutside(s, Len(s), cs))

\* list.insert at the place that keeps a sorted list sorted, after the equal ones
RECURSIVE Inserted(_, _)
Inserted(sorted, x) ==
    IF Len(sorted) = 0 THEN <<x>>
    ELSE IF StrLess(x, Head(sorted)) THEN <<x>> \o sorted
    ELSE <<Head(sorted)>> \o Inserted(Tail(sorted), x)

\* sorted(names) for a list of str
RECURSIVE SortedList(_)
SortedList(names) ==
    IF Len(names) = 0 THEN << >>
    ELSE Inserted(SortedList(Slice(names, 1, Len(names) - 1)), names[Len(names)])

\* result.append(f"- `{dir_name}` directory") for each directory
DirectoryBullets(dirs) ==
    [i \in DOMAIN dirs |-> "- " \o Backquote \o dirs[i] \o Backquote \o " directory"]

\* the lines for the matches of search_documents(query_keywords, agentos_dir, limit=10)
MatchingKeywords(found) ==
    IF Len(found.paths) = 0 THEN << >>
    ELSE <<"\n**Matching your keywords:**">> \o Bullets("agent-os/", found.paths)

\* "if query_keywords:" at the end of the overview and of the not-found
\* answer of agno_agentos, and the return after it
AgentOSAnswer(lines, query_keywords, cache, found) ==
    IF Len(query_keywords) = 0 THEN Served("", Join(lines, "\n"), cache, << >>, {AgentOSDir})
    ELSE IF found.raised # "" THEN Served(found.raised, "", cache, << >>, {})
    ELSE Served("", Join(lines \o MatchingKeywords(found), "\n"), cache,
                <<AgentOSDir>>, {AgentOSDir})

\* "if not path:" of agno_agentos after list_directory(agentos_dir), with
\* what search_documents(query_keywords, agentos_dir, limit=10) returns
AgentOSOverview(query_keywords, cache, found, contents) ==
    IF contents.raised # "" THEN Served(contents.raised, "", cache, << >>, {})
    ELSE AgentOSAnswer(
            << "## AgentOS Documentation\n",
               "AgentOS is the production runtime for Agno agents.\n",
               "*Location: " \o Backquote \o "agent-os/" \o Backquote \o "*\n",
               "**Available sections:**\n" >>
            \o DirectoryBullets(contents.dirs) \o Bullets("", contents.files)
            \o << "\nUse " \o Backquote \o "path=\"overview\"" \o Backquote \o " or "
                  \o Backquote \o "path=\"features/\"" \o Backquote
                  \o " to explore sections." >>,
            query_keywords, cache, found)

\* available = [d.rstrip("/") for d in contents.dirs], extended by the file
\* names without ".mdx" and ".md"
AvailablePaths(contents) ==
    [i \in DOMAIN contents.dirs |-> RStripChars(contents.dirs[i], {"/"})]
    \o [i \in DOMAIN contents.files |->
            ReplaceAll(ReplaceAll(contents.files[i], ".mdx", ""), ".md", "")]

\* the not-found answer of agno_agentos after list_directory(agentos_dir),
\* with what search_documents(query_keywords, agentos_dir, limit=10) returns
AgentOSNotFound(path, query_keywords, cache, found, contents) ==
    IF contents.raised # "" THEN Served(contents.raised, "", cache, << >>, {})
    ELSE AgentOSAnswer(
            << "Path " \o Backquote \o path \o Backquote \o " not found in AgentOS docs.\n",
               "**Available paths:**\n" >>
            \o Bullets("", SortedList(AvailablePaths(contents))),
            query_keywords, cache, found)

\* the directory answer of agno_agentos with the suggestions of get_matching_paths
AgentOSWithSuggestions(path, resolved_path, listed, suggestions) ==
    IF suggestions.raised # "" THEN Served(suggestions.raised, "", listed.cache, << >>, {})
    ELSE Served("", "## AgentOS: " \o path \o "\n\n" \o listed.text
                        \o (IF suggestions.text # "" THEN "\n\n" \o suggestions.text ELSE ""),
                listed.cache, IF suggestions.searched THEN <<AgentOSDir>> ELSE << >>,
                {resolved_path})

\* the directory answer of agno_agentos after format_directory_listing
AgentOSDirectory(path, query_keywords, walked, resolved_path, listed) ==
    IF listed.raised # "" THEN {Served(listed.raised, "", listed.cache, << >>, {})}
    ELSE IF Len(query_keywords) = 0
    THEN {Served("", "## AgentOS: " \o path \o "\n\n" \o listed.text, listed.cache,
                 << >>, {resolved_path})}
    ELSE {AgentOSWithSuggestions(path, resolved_path, listed, suggestions) :
            suggestions \in get_matching_paths(path, query_keywords, AgentOSDir, walked)}

\* the file answer of agno_agentos after format_file_content
AgentOSFile(resolved_path, formatted) ==
    Served(formatted.raised, formatted.text, formatted.cache, << >>,
           IF formatted.raised = "" THEN {resolved_path} ELSE {})

\* "if resolved_path.exists():" of agno_agentos after resolved_path.is_dir()
AgentOSFound(path, doc_path, query_keywords, cache, walked, resolved_path, is_dir) ==
    IF is_dir \notin {"yes", "no"} THEN {Served(is_dir, "", cache, << >>, {})}
    ELSE IF is_dir = "yes"
    THEN UNION {AgentOSDirectory(path, query_keywords, walked, resolved_path, listed) :
                  listed \in {format_directory_listing(resolved_path, doc_path, cache)}}
    ELSE {AgentOSFile(resolved_path, formatted) :
            formatted \in {format_file_content(resolved_path, doc_path, cache)}}

\* agno_agentos after resolved_path.exists(): is_valid is not looked at
AgentOSChecked(path, doc_path, query_keywords, cache, walked, resolved_path, exists) ==
    IF exists \notin {"yes", "no"} THEN {Served(exists, "", cache, << >>, {})}
    ELSE IF exists = "yes"
    THEN AgentOSFound(path, doc_path, query_keywords, cache, walked, resolved_path,
                      PathIsDir(resolved_path))
    ELSE {AgentOSNotFound(path, query_keywords, cache, found, contents) :
            found \in {search_documents(query_keywords, AgentOSDir, DefaultLimit, walked)},
            contents \in {list_directory(AgentOSDir)}}

\* agno_agentos after resolve_doc_path(doc_path, base_dir)
AgentOSResolved(path, doc_path, query_keywords, cache, walked, resolved) ==
    IF resolved.raised # "" THEN {Served(resolved.raised, "", cache, << >>, {})}
    ELSE UNION {AgentOSChecked(path, doc_path, query_keywords, cache, walked, resolved_path,
                               PathExists(resolved_path)) :
                  resolved_path \in {resolved.path}}

\* agno_agentos after agentos_dir.exists()
AgentOSGuarded(path, query_keywords, cache, walked, exists) ==
    IF exists \notin {"yes", "no"} THEN {Served(exists, "", cache, << >>, {})}
    ELSE IF exists = "no"
    THEN {Served("", "AgentOS documentation not found.\nRun " \o Backquote
                     \o "python -m agno_docs_mcp.prepare" \o Backquote \o " to prepare docs.",
                 cache, << >>, {})}
    ELSE IF path = ""
    THEN {AgentOSOverview(query_keywords, cache, found, contents) :
            found \in {search_documents(query_keywords, AgentOSDir, DefaultLimit, walked)},
            contents \in {list_directory(AgentOSDir)}}
    ELSE UNION {AgentOSResolved(path, doc_path, query_keywords, cache, walked, resolved) :
                  doc_path \in {"agent-os/" \o StripChars(path, {"/"})},
                  resolved \in {resolve_doc_path("agent-os/" \o StripChars(path, {"/"}),
                                                 DocsBaseDir)}}

\* agno_agentos(path, query_keywords): what it can do on the snippet cache
\* given, walk_mdx_files yielding the listing walked.  No path (None or "")
\* is the empty string, no keywords the empty sequence.
agno_agentos(path, query_keywords, cache, walked) ==
    AgentOSGuarded(path, query_keywords, cache, walked, PathExists(AgentOSDir))

REFERENCE_TOPICS ==
    { "agents", "teams", "workflows", "tools", "models", "memory", "knowledge",
      "storage", "hooks", "compression", "reasoning", "agent-os" }

\* the order of REFERENCE_TOPICS, joined by ", "
AvailableTopics ==
    "agents, teams, workflows, tools, models, memory, knowledge, storage, hooks, compression, reasoning, agent-os"

\* the answer of agno_reference to a topic that is not one of REFERENCE_TOPICS
UnknownTopic(topic, cache, suggestions) ==
    IF suggestions.raised # "" THEN Served(suggestions.raised, "", cache, << >>, {})
    ELSE Served("", "Unknown reference topic: " \o Backquote \o topic \o Backquote \o "\n\n"
                    \o "**Available topics:** " \o AvailableTopics \o "\n\n"
                    \o "Use one of these topics, or browse with " \o Backquote \o "topic=''"
                    \o Backquote \o " to see all categories."
                    \o (IF Len(suggestions.paths) > 0
                        THEN "\n\n**Suggested reference docs:**\n"
                             \o Join(Bullets("reference/", suggestions.paths), "\n")
                        ELSE ""),
                cache, <<ReferenceDir>>, {})

\* the directory answer of agno_reference after format_directory_listing,
\* with what search_documents(query_keywords, resolved_path, limit=10) returns
ReferenceDirectory(topic, doc_path, query_keywords, resolved_path, listed, keyword_results) ==
    IF listed.raised # "" THEN Served(listed.raised, "", listed.cache, << >>, {})
    ELSE IF Len(query_keywords) = 0
    THEN Served("", "## API Reference: " \o (IF topic # "" THEN topic ELSE "All Topics")
                    \o "\n\n" \o listed.text, listed.cache, << >>, {resolved_path})
    ELSE IF keyword_results.raised # ""
    THEN Served(keyword_results.raised, "", listed.cache, << >>, {})
    ELSE Served("", "## API Reference: " \o (IF topic # "" THEN topic ELSE "All Topics")
                    \o "\n\n" \o listed.text
                    \o (IF Len(keyword_results.paths) > 0
                        THEN "\n\n**Files matching your keywords:**\n"
                             \o Join(Bullets(doc_path \o "/", keyword_results.paths), "\n")
                        ELSE ""),
                listed.cache, <<resolved_path>>, {resolved_path})

\* the answer of agno_reference for a topic whose path is not there
ReferenceNotFound(topic, doc_path, cache, contents) ==
    IF contents.raised # "" THEN Served(contents.raised, "", cache, << >>, {})
    ELSE Served("", "## Reference: " \o topic \o "\n\n"
                    \o format_not_found_error(doc_path, "reference", contents, << >>),
                cache, << >>, {ReferenceDir})

\* agno_reference after resolved_path.exists() and resolved_path.is_dir():
\* the flag that resolve_doc_path returned is dropped
ReferenceChecked(topic, doc_path, query_keywords, cache, walked, resolved_path, exists, is_dir) ==
    IF exists \notin {"yes", "no"} THEN {Served(exists, "", cache, << >>, {})}
    ELSE IF exists = "no"
    THEN {ReferenceNotFound(topic, doc_path, cache, contents) :
            contents \in {list_directory(ReferenceDir)}}
    ELSE IF is_dir \notin {"yes", "no"} THEN {Served(is_dir, "", cache, << >>, {})}
    ELSE IF is_dir = "yes"
    THEN {ReferenceDirectory(topic, doc_path, query_keywords, resolved_path, listed,
                             keyword_results) :
            listed \in {format_directory_listing(resolved_path, doc_path, cache)},
            keyword_results \in {search_documents(query_keywords, resolved_path,
                                                  DefaultLimit, walked)}}
    ELSE {AgentOSFile(resolved_path, formatted) :
            formatted \in {format_file_content(resolved_path, doc_path, cache)}}

\* agno_reference after resolve_doc_path(doc_path, base_dir)
ReferenceResolved(topic, doc_path, query_keywords, cache, walked, resolved) ==
    IF resolved.raised # "" THEN {Served(resolved.raised, "", cache, << >>, {})}
    ELSE UNION {ReferenceChecked(topic, doc_path, query_keywords, cache, walked,
                                 resolved_path, PathExists(resolved_path),
                                 PathIsDir(resolved_path)) :
                  resolved_path \in {resolved.path}}

\* agno_reference once topic_lower is known
ReferenceTopic(topic, topic_lower, query_keywords, cache, walked, exists) ==
    IF exists \notin {"yes", "no"} THEN {Served(exists, "", cache, << >>, {})}
    ELSE IF exists = "no"
    THEN {Served("", "Reference documentation not found.\nRun " \o Backquote
                     \o "python -m agno_docs_mcp.prepare" \o Backquote \o " to prepare docs.",
                 cache, << >>, {})}
    ELSE IF topic_lower \notin REFERENCE_TOPICS /\ topic_lower # ""
    THEN {UnknownTopic(topic, cache, suggestions) :
            suggestions \in {search_documents(<<topic_lower>> \o query_keywords,
                                              ReferenceDir, DefaultLimit, walked)}}
    ELSE UNION {ReferenceResolved(topic, doc_path, query_keywords, cache, walked, resolved) :
                  doc_path \in {IF topic_lower # "" THEN "reference/" \o topic_lower
                                ELSE "reference"},
                  resolved \in {resolve_doc_path(IF topic_lower # ""
                                                 THEN "reference/" \o topic_lower
                                                 ELSE "reference", DocsBaseDir)}}

\* agno_reference(topic, query_keywords): what it can do on the snippet
\* cache given, walk_mdx_files yielding the listing walked
agno_reference(topic, query_keywords, cache, walked) ==
    UNION {ReferenceTopic(topic, topic_lower, query_keywords, cache, walked,
                          PathExists(ReferenceDir)) :
             topic_lower \in {StripChars(Strip(Lower(topic)), {"/"})}}

\* path arguments of agno_agentos ("" for none) and topics of agno_reference
AgentOSPaths ==
    { "", "overview", "overview.mdx", "features/", "features/security", "nope", "..",
      "../basics", "../..", "../../snippets/plain",
      "../../snippets/plain.mdx", "../../raw2", "/../x/" }

ReferenceTopicInputs ==
    { "", "agents", "Agents/", " teams", "tools", "agent-os", "nope", "..", "../basics" }

SectionKeywordLists == { << >>, <<"streaming">> }

\* the listing that a call of a section tool walks: none without a search
SectionWalks(root, searches) ==
    IF searches THEN walk_mdx_files(root, mdx_file_cache) ELSE {Walked(<< >>, FALSE)}

\* what a call of a section tool leaves in the variables
SectionCall(op, argument, query_keywords, walked, r) ==
    /\ call' = [op |-> op, path |-> argument, query_keywords |-> query_keywords,
                n |-> Calls + 1]
    /\ ret' = [raised |-> r.raised, text |-> r.text, shown |-> r.shown]
    /\ snippet_cache' = r.cache
    /\ mdx_file_cache' =
         IF Len(r.walked_root) > 0 /\ walked.scanned
         THEN CachePut(mdx_file_cache, PathStr(r.walked_root[1]), walked.files)
         ELSE mdx_file_cache
    /\ UNCHANGED <<restaged, requests>>

AgnoAgentOS(path, query_keywords) ==
    \E walked \in SectionWalks(AgentOSDir, Len(query_keywords) > 0) :
    \E r \in agno_agentos(path, query_keywords, snippet_cache, walked) :
        SectionCall("agno_agentos", path, query_keywords, walked, r)

\* the root that agno_reference searches for the topic
ReferenceSearchRoot(topic_lower) ==
    IF topic_lower \notin REFERENCE_TOPICS /\ topic_lower # "" THEN ReferenceDir
    ELSE PathJoin(DocsBaseDir, IF topic_lower # "" THEN "reference/" \o topic_lower
                               ELSE "reference")

\* whether agno_reference comes to search: always for an unknown topic,
\* with keywords for a directory
ReferenceSearches(topic_lower, query_keywords) ==
    \/ topic_lower \notin REFERENCE_TOPICS /\ topic_lower # ""
    \/ Len(query_keywords) > 0 /\ PathIsDir(ReferenceSearchRoot(topic_lower)) = "yes"

AgnoReference(topic, query_keywords) ==
    \E walked \in SectionWalks(ReferenceSearchRoot(StripChars(Strip(Lower(topic)), {"/"})),
                    ReferenceSearches(StripChars(Strip(Lower(topic)), {"/"}), query_keywords)) :
    \E r \in agno_reference(topic, query_keywords, snippet_cache, walked) :
        SectionCall("agno_reference", topic, query_keywords, walked, r)

\* a call on empty caches; after a first call with keywords, a second call
\* on the caches that the first one left
NextSections ==
    /\ call.op = "none" \/ (Calls = 1 /\ Len(call.query_keywords) > 0)
    /\ \/ \E path \in AgentOSPaths, query_keywords \in SectionKeywordLists :
            AgnoAgentOS(path, query_keywords)
       \/ \E topic \in ReferenceTopicInputs, query_keywords \in SectionKeywordLists :
            AgnoReference(topic, query_keywords)

SpecSections == InitSections /\ [][NextSections]_vars

\* _fetch_single_path(doc_path, query_keywords, get_docs_base_dir()) on the
\* process-wide caches, walk_mdx_files yielding the listing walked when the
\* call comes to search
fetch_keeping_index_file(doc_path, query_keywords, walked) ==
    \E r \in fetch_single_path(doc_path, query_keywords, DocsBaseDir,
                               snippet_cache, walked) :
        /\ call' = [op |-> "fetch_single_path", doc_path |-> doc_path,
                    query_keywords |-> query_keywords, n |-> Calls + 1]
        /\ ret' = [raised |-> r.raised, text |-> r.text]
        /\ snippet_cache' = r.cache
        /\ mdx_file_cache' =
             IF r.searched /\ walked.scanned
             THEN CachePut(mdx_file_cache, PathStr(DocsBaseDir), walked.files)
             ELSE mdx_file_cache
        /\ restaged' =
             IF r.searched /\ walked.scanned
             THEN [restaged EXCEPT !.added = @ \cup {File(DocsBaseDir \o <<".index">>, "")}]
             ELSE restaged
        /\ UNCHANGED requests

FetchSinglePath(doc_path, query_keywords, walked) ==
    \E r \in fetch_single_path(doc_path, query_keywords, DocsBaseDir,
                               snippet_cache, walked) :
        /\ call' = [op |-> "fetch_single_path", doc_path |-> doc_path,
                    query_keywords |-> query_keywords, n |-> Calls + 1]
        /\ ret' = [raised |-> r.raised, text |-> r.text]
        /\ snippet_cache' = r.cache
        /\ mdx_file_cache' =
             IF r.searched /\ walked.scanned
             THEN CachePut(mdx_file_cache, PathStr(DocsBaseDir), walked.files)
             ELSE mdx_file_cache
        /\ UNCHANGED <<restaged, requests>>

\* one request; without keywords no listing is walked
NextDocs ==
    /\ call.op = "none"
    /\ \E request \in DocRequests :
       \E walked \in IF Len(request[2]) = 0 THEN {Walked(<< >>, FALSE)}
                     ELSE walk_mdx_files(DocsBaseDir, mdx_file_cache) :
            FetchSinglePath(request[1], request[2], walked)

SpecDocs == Init /\ [][NextDocs]_vars

(***************************************************************************)
(* Requests served at the same time.  The request-handling layer runs two  *)
(* requests in two threads; a thread is switched between two accesses to   *)
(* the process-wide caches.  What a thread does between two such accesses  *)
(* reads only its own data and the staged files, and is one step.          *)
(***************************************************************************)
\* a resolve_snippets call of a request: file is the fragment whose
\* replace_snippet made the call ("" for the call on the document), rest the
\* content not yet scanned, out the text that re.sub has put together
Frame(file, max_depth, rest, out) ==
    [file |-> file, max_depth |-> max_depth, rest |-> rest, out |-> out]

\* read_mdx_file on a document with this body, before resolve_snippets(body)
Loading(content) ==
    [kind |-> "load", content |-> content, keywords |-> << >>, pc |-> "resolve",
     frames |-> <<Frame("", DefaultMaxDepth, content, "")>>,
     walked |-> Walked(<< >>, FALSE), raised |-> "", text |-> "", paths |-> << >>]

\* search_documents(keywords, root), before walk_mdx_files(root)
Searching(keywords) ==
    [kind |-> "search", content |-> "", keywords |-> keywords, pc |-> "check",
     frames |-> << >>,
     walked |-> Walked(<< >>, FALSE), raised |-> "", text |-> "", paths |-> << >>]

\* replace_snippet on a name that the cache does not have, up to the nested
\* resolve_snippets call: the exception of an existence test, the comment
\* that replaces the marker, or the body to resolve
FragmentRead(snippet_file, read) ==
    IF read.err # ""
    THEN [kind |-> "comment",
          text |-> "<!-- Snippet " \o snippet_file \o " could not be loaded -->"]
    ELSE [kind |-> "body", text |-> Strip(parse_frontmatter(read.text).body)]

FragmentAt(snippet_file, snippet_path, exists) ==
    IF exists \notin {"yes", "no"} THEN [kind |-> "raised", text |-> exists]
    ELSE IF exists = "no"
    THEN [kind |-> "comment", text |-> "<!-- Snippet " \o snippet_file \o " not found -->"]
    ELSE FragmentRead(snippet_file, ReadText(snippet_path))

FragmentTried(snippet_file, snippet_path) ==
    FragmentAt(snippet_file, snippet_path, PathExists(snippet_path))

FragmentFirst(snippet_file, first_exists) ==
    IF first_exists \notin {"yes", "no"} THEN [kind |-> "raised", text |-> first_exists]
    ELSE IF first_exists = "no" /\ ~EndsWith(snippet_file, ".mdx")
    THEN FragmentTried(snippet_file, PathJoin(SnippetsDir, snippet_file \o ".mdx"))
    ELSE FragmentTried(snippet_file, PathJoin(SnippetsDir, snippet_file))

Fragment(snippet_file) ==
    FragmentFirst(snippet_file, PathExists(PathJoin(SnippetsDir, snippet_file)))

\* the innermost call of the request
Top(q) == q.frames[Len(q.frames)]

\* the request with its innermost call at f
WithTop(q, f) == [q EXCEPT !.frames = [@ EXCEPT ![Len(@)] = f]]

\* the innermost call has returned text to replace_snippet, which returns it
\* to the re.sub of the call around it
Substituted(q, text) ==
    [q EXCEPT !.frames = [k \in 1..(Len(@) - 1) |->
                            IF k = Len(@) - 1 THEN [@[k] EXCEPT !.out = @ \o text] ELSE @[k]]]

\* an exception leaves the innermost call f: the replace_snippet that made
\* the call catches it and returns its comment; nothing catches it around
\* the call on the document
Unwound(q, f, exc) ==
    IF f.file = "" THEN [q EXCEPT !.pc = "done", !.raised = exc, !.frames = << >>]
    ELSE Substituted(q, "<!-- Snippet " \o f.file \o " could not be loaded -->")

\* replace_snippet for the marker mt on a name that the cache does not have
MarkerMissed(q, f, mt, fragment) ==
    IF fragment.kind = "raised" THEN Unwound(q, f, fragment.text)
    ELSE IF fragment.kind = "comment" THEN WithTop(q, [f EXCEPT !.out = @ \o fragment.text])
    ELSE [q EXCEPT !.frames = Append([@ EXCEPT ![Len(@)] = f],
                                     Frame(mt.file, f.max_depth - 1, fragment.text, ""))]

\* re.sub comes to the marker mt of the innermost call f and calls
\* replace_snippet, which looks the name up in the cache
MarkerReached(q, f, mt, cache) ==
    IF mt.file \in DOMAIN cache
    THEN WithTop(q, [f EXCEPT !.out = @ \o Slice(f.rest, 1, mt.start - 1) \o cache[mt.file],
                              !.rest = Slice(f.rest, mt.end + 1, Len(f.rest))])
    ELSE MarkerMissed(q, [f EXCEPT !.out = @ \o Slice(f.rest, 1, mt.start - 1),
                                   !.rest = Slice(f.rest, mt.end + 1, Len(f.rest))],
                      mt, Fragment(mt.file))

\* the innermost call has a marker left to replace
HasMarker(f) == ~AtFloor(f.max_depth) /\ NextSnippet(f.rest, 1).end # 0

\* thread t replaces the next marker of its innermost call
ReplaceSnippet(t) ==
    /\ t \in DOMAIN requests
    /\ requests[t].kind = "load" /\ requests[t].pc = "resolve"
    /\ HasMarker(Top(requests[t]))
    /\ requests' = [requests EXCEPT ![t] =
                       MarkerReached(@, Top(@), NextSnippet(Top(@).rest, 1), snippet_cache)]
    /\ UNCHANGED <<restaged, snippet_cache, mdx_file_cache, call, ret>>

\* the innermost call of thread t returns: a call for a fragment returns to
\* replace_snippet, which stores the text under the name of the fragment
\* and returns it; the call on the document ends the request
ReturnResolved(t) ==
    /\ t \in DOMAIN requests
    /\ requests[t].kind = "load" /\ requests[t].pc = "resolve"
    /\ ~HasMarker(Top(requests[t]))
    /\ \E f \in {Top(requests[t])} :
          IF f.file = ""
          THEN /\ requests' = [requests EXCEPT ![t] =
                                 [@ EXCEPT !.pc = "done", !.text = f.out \o f.rest,
                                           !.frames = << >>]]
               /\ UNCHANGED snippet_cache
          ELSE /\ snippet_cache' = CachePut(snippet_cache, f.file, f.out \o f.rest)
               /\ requests' = [requests EXCEPT ![t] = Substituted(@, f.out \o f.rest)]
    /\ UNCHANGED <<restaged, mdx_file_cache, call, ret>>

\* walk_mdx_files in thread t: "if cache_key in _mdx_file_cache", and the
\* scan when the key is not there
WalkCheck(t) ==
    /\ t \in DOMAIN requests
    /\ requests[t].kind = "search" /\ requests[t].pc = "check"
    /\ \E walked \in walk_mdx_files(DocsBaseDir, mdx_file_cache) :
          requests' = [requests EXCEPT ![t] =
                          [@ EXCEPT !.walked = walked,
                                    !.pc = IF walked.raised # "" THEN "done"
                                           ELSE IF walked.scanned THEN "store" ELSE "score",
                                    !.raised = walked.raised]]
    /\ UNCHANGED <<restaged, snippet_cache, mdx_file_cache, call, ret>>

\* walk_mdx_files in thread t: "_mdx_file_cache[cache_key] = files_found"
WalkStore(t) ==
    /\ t \in DOMAIN requests
    /\ requests[t].kind = "search" /\ requests[t].pc = "store"
    /\ mdx_file_cache' = CachePut(mdx_file_cache, PathStr(DocsBaseDir), requests[t].walked.files)
    /\ requests' = [requests EXCEPT ![t] = [@ EXCEPT !.pc = "score"]]
    /\ UNCHANGED <<restaged, snippet_cache, call, ret>>

\* search_documents in thread t over the files that walk_mdx_files yields
WalkScore(t) ==
    /\ t \in DOMAIN requests
    /\ requests[t].kind = "search" /\ requests[t].pc = "score"
    /\ \E found \in {search_documents(requests[t].keywords, DocsBaseDir, DefaultLimit,
                                      requests[t].walked)} :
          requests' = [requests EXCEPT ![t] =
                          [@ EXCEPT !.pc = "done", !.raised = found.raised,
                                    !.paths = found.paths]]
    /\ UNCHANGED <<restaged, snippet_cache, mdx_file_cache, call, ret>>

\* the documents loaded at the same time: fragments that include
\* themselves or each other, a fragment with a header, a missing one
RaceContents ==
    { Marker("self.mdx"), Marker("a.mdx"), Marker("b"),
      Marker("plain.mdx") \o " and " \o Marker("nope") }

RaceKeywords == { <<"streaming">>, <<"Agents">> }

\* two requests of a kind
RacePairs ==
    {<<Loading(c), Loading(c)>> : c \in RaceContents}
    \cup {<<Loading(Marker("a.mdx")), Loading(Marker("b"))>>,
          <<Loading(Marker("self.mdx")), Loading(Marker("plain.mdx") \o " and " \o Marker("nope"))>>}
    \cup {<<Searching(<<"streaming">>), Searching(k)>> : k \in RaceKeywords}

\* two requests arrive on empty caches and are given to two threads
Arrive(pair) ==
    /\ call.op = "none"
    /\ call' = [op |-> "concurrent"]
    /\ requests' = pair
    /\ UNCHANGED <<restaged, snippet_cache, mdx_file_cache, ret>>

NextRace ==
    \/ \E pair \in RacePairs : Arrive(pair)
    \/ \E t \in 1..2 : ReplaceSnippet(t)
    \/ \E t \in 1..2 : ReturnResolved(t)
    \/ \E t \in 1..2 : WalkCheck(t)
    \/ \E t \in 1..2 : WalkStore(t)
    \/ \E t \in 1..2 : WalkScore(t)

SpecRace == Init /\ [][NextRace]_vars

\* the documents loaded one after the other
LoadContents == RaceContents \cup { Marker("twice.mdx"), Marker("locked.mdx") }

\* Most document loads of one run, one after the other.
MaxLoads == 2

\* read_mdx_file comes to resolve_snippets(body) for the next document, the
\* load before it having returned
LoadNext(content) ==
    /\ Calls < MaxLoads
    /\ \A t \in DOMAIN requests : requests[t].pc = "done"
    /\ call' = [op |-> "read_mdx_file", content |-> content, n |-> Calls + 1]
    /\ requests' = <<Loading(content)>>
    /\ UNCHANGED <<restaged, snippet_cache, mdx_file_cache, ret>>

\* document loads in one thread, step by step
NextLoads ==
    \/ \E content \in LoadContents : LoadNext(content)
    \/ ReplaceSnippet(1)
    \/ ReturnResolved(1)

SpecLoads == Init /\ [][NextLoads]_vars

\* the paths and the extra keywords asked of get_matching_paths
SuggestPaths ==
    { "", "basics/building-agents.mdx", "basics/teams.mdx", "streaming/zzz",
      "StreamingAgents", "agents_streaming.md", "x/ab-Teams", "API", "my agents-x",
      "teams.txt" }

SuggestKeywordLists ==
    { << >>, <<"zzz">>, <<"Streaming  Agents">>, <<"AGENTS", "agents">>, <<" ">> }

\* suggestFromPath(queryPath, extraKeywords, root) on the process-wide index
\* cache, walk_mdx_files yielding the listing walked when the call searches
GetMatchingPaths(doc_path, query_keywords, walked) ==
    \E r \in get_matching_paths(doc_path, query_keywords, DocsBaseDir, walked) :
        /\ call' = [op |-> "get_matching_paths", doc_path |-> doc_path,
                    query_keywords |-> query_keywords, walked |-> walked]
        /\ ret' = [raised |-> r.raised, text |-> r.text]
        /\ mdx_file_cache' =
             IF r.searched /\ walked.scanned
             THEN CachePut(mdx_file_cache, PathStr(DocsBaseDir), walked.files)
             ELSE mdx_file_cache
        /\ UNCHANGED <<restaged, snippet_cache, requests>>

NextSuggest ==
    /\ call.op = "none"
    /\ \E doc_path \in SuggestPaths, query_keywords \in SuggestKeywordLists :
       \E walked \in walk_mdx_files(DocsBaseDir, mdx_file_cache) :
            GetMatchingPaths(doc_path, query_keywords, walked)

SpecSuggest == Init /\ [][NextSuggest]_vars

\* the paths asked of find_nearest_directory
NearestInputs == DocPathInputs \cup { LongName, "basics/" \o LongName }

\* nearestAncestor(path, root)
FindNearestDirectory(p) ==
    /\ call.op = "none"
    /\ call' = [op |-> "find_nearest_directory", doc_path |-> p]
    /\ ret' = find_nearest_directory(p, DocsBaseDir)
    /\ UNCHANGED <<restaged, snippet_cache, mdx_file_cache, requests>>

\* the documents asked of format_file_content: the files of both roots
FormatInputs == {n.path : n \in {e \in DocNodes \cup OtherNodes : e.kind = "file"}}

\* the formatting of a loaded document, on the process-wide fragment cache
FormatFileContent(file_path, relative_path) ==
    \E r \in {format_file_content(file_path, relative_path, snippet_cache)} :
        /\ call.op = "none"
        /\ call' = [op |-> "format_file_content", file_path |-> file_path,
                    relative_path |-> relative_path]
        /\ ret' = [raised |-> r.raised, text |-> r.text]
        /\ snippet_cache' = r.cache
        /\ UNCHANGED <<restaged, mdx_file_cache, requests>>

\* listDirectory(dir)
ListDirectory(dir_path) ==
    /\ call.op = "none"
    /\ call' = [op |-> "list_directory", dir_path |-> dir_path]
    /\ ret' = list_directory(dir_path)
    /\ UNCHANGED <<restaged, snippet_cache, mdx_file_cache, requests>>

NextListing ==
    /\ call.op = "none"
    /\ \/ \E p \in NearestInputs : FindNearestDirectory(p)
       \/ \E p \in NearestInputs : ListDirectory(PathJoin(DocsBaseDir, p))
       \/ \E file_path \in FormatInputs : FormatFileContent(file_path, PathName(file_path))

SpecListing == Init /\ [][NextListing]_vars

NextPaths == call.op = "none" /\ \E c \in ResolveInputs : Resolve(c[1], c[2])

SpecPaths == Init /\ [][NextPaths]_vars

(***************************************************************************)
(* Claims about resolve (resolve_doc_path).                                *)
(***************************************************************************)
\* the caller's path has a ".." segment
HasDotDotSegment(p) == \E i \in DOMAIN Split(p, "/") : Strip(Split(p, "/")[i]) = ".."

\* the canonical candidate location of p is not at or below the canonical root
CanonOutsideRoot(p, root) ==
    LET clean == Strip(StripChars(p, {"/"}))
        cand == PathResolve(PathJoin(root, clean))
        base == PathResolve(root)
    IN  /\ clean # ""
        /\ cand.ok /\ base.ok
        /\ ~(/\ Len(base.path) <= Len(cand.path)
             /\ Slice(cand.path, 1, Len(base.path)) = base.path)

\* C1: for every path p that contains a ".." segment, or whose candidate
\* location canonicalizes outside the canonical root, resolve returns
\* found = false.
C1_TraversalNeverFound ==
    (/\ call.op = "resolve_doc_path"
     /\ ret.raised = ""
     /\ (HasDotDotSegment(call.doc_path) \/ CanonOutsideRoot(call.doc_path, call.base_dir)))
    => ret.found = FALSE

\* C3: resolve never raises, whatever the input path string.
C3_ResolveNeverRaises ==
    call.op = "resolve_doc_path" => ret.raised = ""

(***************************************************************************)
(* Claims about parseFrontmatter (parse_frontmatter).                      *)
(***************************************************************************)
Parsed == call.op \in {"parse_frontmatter", "parse_frontmatter_again"}

IsEmptyMapping(fm) == fm.type = "dict" /\ DOMAIN fm.val = {}

\* the text starts with a complete header block: the three dashes, and a later
\* line made of three dashes and blanks only that is ended by a newline
HasHeaderBlock(text) ==
    LET ls == Split(text, "\n")
    IN  /\ StartsWith(text, "---")
        /\ \E k \in 2..(Len(ls) - 1) :
              StartsWith(ls[k], "---") /\ Strip(Slice(ls[k], 4, Len(ls[k]))) = ""

\* the header between the opening dashes and the closing delimiter line
HeaderOf(text) ==
    LET rest == Slice(text, 4, Len(text))
    IN  Slice(rest, 1, ClosingMatch(rest).start - 1)

\* C5: if parsing the frontmatter block fails in any way (no closing
\* delimiter, invalid YAML, or a header that is no key:value mapping),
\* parseFrontmatter returns an empty mapping and the original raw text.
C5_ParseFailureReturnsRaw ==
    (/\ call.op = "parse_frontmatter"
     /\ StartsWith(call.content, "---")
     /\ \/ ~HasHeaderBlock(call.content)
        \/ YamlSafeLoad(HeaderOf(call.content)).type \in {"error", "str"})
    => (IsEmptyMapping(ret.frontmatter) /\ ret.body = call.content)

\* C6 as claimed: parsing the body returned by a previous parse returns an
\* empty mapping and that same body, for every raw text.
C6_Idempotent ==
    call.op = "parse_frontmatter_again"
    => (IsEmptyMapping(ret.frontmatter) /\ ret.body = call.content)

\* C6 as amended: parsing the body returned by a previous parse returns an
\* empty mapping and that same body, unless that body itself starts with a
\* complete header block.
C6_IdempotentWithoutSecondHeader ==
    (call.op = "parse_frontmatter_again" /\ ~HasHeaderBlock(call.content))
    => (IsEmptyMapping(ret.frontmatter) /\ ret.body = call.content)

\* a header was stripped by the first parse, and the body left over starts
\* with three dashes that open no header block; the second parse kept it
C6_Witness ==
    /\ call.op = "parse_frontmatter_again"
    /\ call.raw # call.content
    /\ StartsWith(call.content, "---")
    /\ ~HasHeaderBlock(call.content)
    /\ ret.body = call.content

\* C7: for every text that does not begin with the three-dash delimiter,
\* parseFrontmatter returns an empty mapping and the full original text.
C7_NoFrontmatterUnchanged ==
    (Parsed /\ ~StartsWith(call.content, "---"))
    => (IsEmptyMapping(ret.frontmatter) /\ ret.body = call.content)

\* a text with a delimiter line and a key:value line further down, but not at
\* its start, came back whole
C7_Witness ==
    /\ call.op = "parse_frontmatter"
    /\ ~StartsWith(call.content, "---")
    /\ Contains(call.content, "\n---\n")
    /\ Contains(call.content, "title: T")
    /\ IsEmptyMapping(ret.frontmatter)
    /\ ret.body = call.content

\* a well-formed header block: a first line of three dashes, one or more
\* key: value lines, a closing line of three dashes ended by a newline
ClosingLine(text) ==
    LET ls == Split(text, "\n")
    IN  IF \E k \in 3..(Len(ls) - 1) :
              /\ ls[1] = "---" /\ ls[k] = "---"
              /\ \A j \in 2..(k - 1) :
                    IsKeyValue(ls[j]) /\ ~Contains(YamlValue(ls[j]), ": ")
        THEN CHOOSE k \in 3..(Len(ls) - 1) :
              /\ ls[1] = "---" /\ ls[k] = "---"
              /\ \A j \in 2..(k - 1) :
                    IsKeyValue(ls[j]) /\ ~Contains(YamlValue(ls[j]), ": ")
        ELSE 0

\* everything after the closing delimiter line
TextAfterLine(text, k) ==
    LET ls == Split(text, "\n")
    IN  Join(Slice(ls, k + 1, Len(ls)), "\n")

\* C8: for a text with a well-formed header block, parseFrontmatter returns
\* the header's key:value pairs as the mapping, and a body that is exactly
\* everything after the closing delimiter line.
C8_BodyIsEverythingAfterHeader ==
    (call.op = "parse_frontmatter" /\ ClosingLine(call.content) # 0)
    => LET ls == Split(call.content, "\n")
           k == ClosingLine(call.content)
       IN  /\ ret.frontmatter.type = "dict"
           /\ \A j \in 2..(k - 1) :
                 /\ YamlKey(ls[j]) \in DOMAIN ret.frontmatter.val
                 /\ (\A i \in (j + 1)..(k - 1) : YamlKey(ls[i]) # YamlKey(ls[j]))
                     => ret.frontmatter.val[YamlKey(ls[j])] = YamlValue(ls[j])
           /\ ret.body = TextAfterLine(call.content, k)

(***************************************************************************)
(* Claims about fragment resolution (resolve_snippets).                    *)
(***************************************************************************)
\* how many times x occurs in a sequence
Count(seq, x) == Cardinality({i \in DOMAIN seq : seq[i] = x})

\* the fragments of the staged tree that include themselves
SelfIncluding == { "self.mdx", "twice.mdx" }

\* the call resolved a document that is one marker of a self-including fragment
OnSelfIncluding ==
    /\ call.op = "resolve_snippets"
    /\ \E n \in SelfIncluding : call.content = Marker(n)

\* at max_depth 0 the call returns its input, replaces nothing and leaves
\* the cache as it was
FloorReturnsBody ==
    call.max_depth = 0 =>
        /\ ret.text = call.content
        /\ ret.subs = 0
        /\ snippet_cache = call.cache

Searched == call.op = "search_documents"

\* C9: for every keyword list, root and limit, search_documents returns no
\* more than limit entries.
C9_AtMostLimitEntries == Searched => Len(ret.paths) <= call.limit

\* more documents matched than the limit allows, and the result was cut to
\* exactly the limit
C9_Witness ==
    /\ Searched
    /\ call.limit > 0
    /\ Len(ret.ranked) > call.limit
    /\ Len(ret.paths) = call.limit

\* the document at relative_path under base_dir has a line that contains
\* one of the keywords, letter case ignored
DocumentMatches(base_dir, relative_path, keywords) ==
    \E n \in tree :
        /\ n.kind = "file"
        /\ n.path = PathJoin(base_dir, relative_path)
        /\ \E line \in Range(Split(n.text, "\n")), k \in DOMAIN keywords :
              Contains(Lower(line), Lower(keywords[k]))

\* C10: every entry search_documents returns is a document with at least
\* one line that contains at least one requested keyword as a
\* case-insensitive substring (so a document that matches no keyword is
\* never returned), and an empty keyword list gives an empty result.
C10_EveryEntryMatchesAKeyword ==
    Searched =>
        /\ \A i \in DOMAIN ret.paths :
              DocumentMatches(call.base_dir, ret.paths[i], call.keywords)
        /\ (Len(call.keywords) = 0 => ret.paths = << >>)

\* a search of the documentation root for "streaming" returned documents,
\* one of them matched only in another letter case, and left out the
\* readable document x.mdx, which has no line with the keyword
C10_Witness ==
    /\ Searched
    /\ call.keywords = <<"streaming">>
    /\ call.base_dir = DocsBaseDir
    /\ call.limit = DefaultLimit
    /\ "basics/teams.mdx" \in Range(ret.paths)
    /\ "x.mdx" \notin Range(ret.paths)

(***************************************************************************)
(* Claims about the not-found responder (_fetch_single_path).              *)
(***************************************************************************)
Fetching == call.op = "fetch_single_path"

\* what resolve reports for the requested path
Reported == resolve_doc_path(call.doc_path, DocsBaseDir)

\* resolve reports the requested path as not found
ReportedNotFound == Fetching /\ Reported.raised = "" /\ ~Reported.found

\* the segments of the requested path, outer separators trimmed
RequestedParts == Split(StripChars(call.doc_path, {"/"}), "/")

\* the location that the first k segments of the requested path name
AncestorAt(k) == PathJoin(DocsBaseDir, Join(Slice(RequestedParts, 1, k), "/"))

\* the first k segments name an existing directory
IsExistingDirectory(k) ==
    Stat(AncestorAt(k)).err = "OK" /\ NodeAt(Stat(AncestorAt(k)).at).kind = "dir"

\* the number of segments that name the nearest existing ancestor
\* directory of the requested path: none for the root
NearestDepth ==
    CHOOSE k \in 0..Len(RequestedParts) :
        /\ (k = 0 \/ IsExistingDirectory(k))
        /\ \A j \in (k + 1)..Len(RequestedParts) : ~IsExistingDirectory(j)

\* the directories and the documents in that directory
NearestEntries ==
    {n \in Entries(Stat(AncestorAt(NearestDepth)).at) :
        n.kind = "dir" \/ PathSuffix(n.path) \in DocSuffixes}

\* the line of a listing for the entry n: its path from the root between
\* backquotes, a directory with a separator after it
EntryLine(n) ==
    "- " \o Backquote
    \o Join(Slice(RequestedParts, 1, NearestDepth) \o <<PathName(n.path)>>, "/")
    \o (IF n.kind = "dir" THEN "/" ELSE "") \o Backquote

\* the response is a text that announces the available paths and has the
\* line of every entry of the nearest existing ancestor directory
HasNearestListing ==
    /\ ret.raised = ""
    /\ Contains(ret.text, "Here are the available")
    /\ \A n \in NearestEntries : Contains(ret.text, EntryLine(n))

MatchesAll(i) == ret.ranked[i].keyword_matches = Range(call.keywords)

\* the entries at i and j are equal in all but the matched keywords, i
\* matches every requested keyword and j only some of them
AllElseEqual(i, j) ==
    /\ ret.ranked[i].total_matches = ret.ranked[j].total_matches
    /\ ret.ranked[i].title_matches = ret.ranked[j].title_matches
    /\ ret.ranked[i].path_relevance = ret.ranked[j].path_relevance
    /\ MatchesAll(i)
    /\ ret.ranked[j].keyword_matches # Range(call.keywords)
    /\ ret.ranked[j].keyword_matches \subseteq Range(call.keywords)

\* the paths returned are the first paths of the ranking, in its order
ReturnsRankingPrefix ==
    /\ Len(ret.paths) <= Len(ret.ranked)
    /\ \A i \in DOMAIN ret.paths : ret.paths[i] = ret.ranked[i].path

\* C11: of two documents with equal totalOccurrences, titleOccurrences and
\* pathRelevance, the one that matches all requested keywords is ranked
\* before the one that matches only a strict subset of them, and the
\* returned list keeps that order.
C11_AllKeywordsOutrankSubset ==
    (Searched /\ ret.raised = "") =>
        /\ ReturnsRankingPrefix
        /\ \A i, j \in DOMAIN ret.ranked : AllElseEqual(i, j) => i < j

\* two such documents were ranked, the one with all keywords was walked
\* after the other, and both were returned
C11_Witness ==
    /\ Searched
    /\ ret.raised = ""
    /\ Len(call.keywords) = 2
    /\ \E i, j \in DOMAIN ret.paths :
          /\ AllElseEqual(i, j)
          /\ i < j
          /\ \E a, b \in DOMAIN mdx_file_cache[PathStr(call.base_dir)] :
                /\ a < b
                /\ mdx_file_cache[PathStr(call.base_dir)][a]
                      = PathStr(PathJoin(call.base_dir, ret.ranked[j].path))
                /\ mdx_file_cache[PathStr(call.base_dir)][b]
                      = PathStr(PathJoin(call.base_dir, ret.ranked[i].path))

(***************************************************************************)
(* Claims about the candidates of resolve (resolve_doc_path).              *)
(***************************************************************************)
\* the path of the call without its surrounding slashes and blanks
CleanOf(doc_path) == Strip(StripChars(doc_path, {"/"}))

\* the exact candidate of the call, then the candidate with its trailing
\* extension replaced by .mdx, then by .md
Candidates(base_dir, doc_path) ==
    LET exact == PathJoin(base_dir, CleanOf(doc_path))
    IN  << exact, WithSuffix(exact, ".mdx"), WithSuffix(exact, ".md") >>

\* something is stored at location p of the file tree
Stored(p) == Stat(p).err = "OK"

\* the call is one the candidates are tried for: its path is not empty and
\* the exact candidate passes the traversal guard
TriesCandidates ==
    /\ call.op = "resolve_doc_path"
    /\ CleanOf(call.doc_path) # ""
    /\ is_safe_path(call.base_dir, PathJoin(call.base_dir, CleanOf(call.doc_path)))

\* the first candidate that is stored, or 0 when none is
FirstStored(cands) ==
    IF \E k \in DOMAIN cands : Stored(cands[k])
    THEN CHOOSE k \in DOMAIN cands : Stored(cands[k]) /\ \A m \in 1..(k - 1) : ~Stored(cands[m])
    ELSE 0

\* C12: resolve tries the exact candidate first, then the candidate with its
\* trailing extension replaced by .mdx, then by .md; it returns the first of
\* these that exists with found = true, and if none exists it returns the
\* original exact candidate with found = false.
C12_FirstExistingCandidate ==
    TriesCandidates =>
        /\ ret.raised = ""
        /\ IF FirstStored(Candidates(call.base_dir, call.doc_path)) = 0
           THEN ret.found = FALSE /\ ret.path = Candidates(call.base_dir, call.doc_path)[1]
           ELSE ret.found = TRUE
                /\ ret.path = Candidates(call.base_dir, call.doc_path)[FirstStored(Candidates(call.base_dir, call.doc_path))]

\* C12 for the calls that return: the part of the statement that the code meets
C12_ReturnedIsFirstExisting ==
    (TriesCandidates /\ ret.raised = "") =>
        IF FirstStored(Candidates(call.base_dir, call.doc_path)) = 0
        THEN ret.found = FALSE /\ ret.path = Candidates(call.base_dir, call.doc_path)[1]
        ELSE ret.found = TRUE
             /\ ret.path = Candidates(call.base_dir, call.doc_path)[FirstStored(Candidates(call.base_dir, call.doc_path))]

\* none of the three candidates is stored, and the call raised while it
\* tried the second one
C12_RaisedOnMissing ==
    /\ TriesCandidates
    /\ FirstStored(Candidates(call.base_dir, call.doc_path)) = 0
    /\ Stat(Candidates(call.base_dir, call.doc_path)[1]).err = "ENOENT"
    /\ ret.raised # ""


\* a document file is stored at location p of the tree, whoever may read it
StoredFile(p) == HasNode(p) /\ NodeAt(p).kind = "file"

\* the call asks for a name x that its root stores a document for as x.mdx
AsksStoredMdx ==
    /\ call.op = "resolve_doc_path"
    /\ CleanOf(call.doc_path) # ""
    /\ StoredFile(PathJoin(call.base_dir, call.doc_path \o ".mdx"))

\* C13: for every root that stores a document as x.mdx, resolve("x", root)
\* and resolve("x.mdx", root) return the same location, both with
\* found = true.
C13_NameAndMdxNameAgree ==
    AsksStoredMdx =>
        /\ ret.raised = "" /\ ret.found = TRUE
        /\ ret = resolve_doc_path(call.doc_path \o ".mdx", call.base_dir)

\* the document is stored below a directory that may not be searched, and
\* the call raised
C13_RaisedForStored == AsksStoredMdx /\ ret.raised # ""

\* the name of the stored document has a dot, and the call did not find it
C13_DottedNameNotFound == AsksStoredMdx /\ ret.raised = "" /\ ret.found = FALSE

\* a directory of the name is stored next to the document, and the call
\* returned the directory
C13_DirectoryReturned ==
    /\ AsksStoredMdx
    /\ ret.raised = "" /\ ret.found = TRUE
    /\ resolve_doc_path(call.doc_path \o ".mdx", call.base_dir).found = TRUE
    /\ ret.path # resolve_doc_path(call.doc_path \o ".mdx", call.base_dir).path

\* C13 where the name has no extension of its own, nothing is stored under
\* the name itself, and the call returns
C13_PlainNameAndMdxNameAgree ==
    (/\ AsksStoredMdx
     /\ ret.raised = ""
     /\ PathSuffix(PathJoin(call.base_dir, call.doc_path)) = ""
     /\ ~Stored(PathJoin(call.base_dir, call.doc_path)))
    => /\ ret.found = TRUE
       /\ ret = resolve_doc_path(call.doc_path \o ".mdx", call.base_dir)


(***************************************************************************)
(* Claims about nearestAncestor (find_nearest_directory).                  *)
(***************************************************************************)
FindingNearest == call.op = "find_nearest_directory"

\* the call returned the deepest existing directory that the leading
\* segments of its path name, labelled with those segments, or the root
\* with the empty label when there is none
ReturnedDeepestExisting ==
    /\ ret.dir = AncestorAt(NearestDepth)
    /\ ret.label = Join(Slice(RequestedParts, 1, NearestDepth), "/")
    /\ (NearestDepth = 0 => ret.dir = DocsBaseDir /\ ret.label = "")

\* C14: nearestAncestor returns the deepest existing directory obtained by
\* repeatedly stripping the last segment of the path, with its root-relative
\* label; it returns (root, "") when no ancestor below root exists, including
\* for the empty path.  Example: nearestAncestor("basics/nope") is
\* (root/basics, "basics").
C14_NearestIsDeepestExisting ==
    FindingNearest =>
        /\ ret.raised = ""
        /\ ReturnedDeepestExisting
        /\ (call.doc_path = "basics/nope" =>
               ret.dir = DocsBaseDir \o <<"basics">> /\ ret.label = "basics")

\* C14 for the calls that return
C14_ReturnedIsDeepestExisting ==
    (FindingNearest /\ ret.raised = "") => ReturnedDeepestExisting

\* the call raised although a leading part of its path names an existing
\* directory, or although none does
C14_RaisedBelowExisting == FindingNearest /\ ret.raised # "" /\ NearestDepth > 0

C14_RaisedWithoutExisting == FindingNearest /\ ret.raised # "" /\ NearestDepth = 0

\* the directory returned is not the root and not below it
C14_ReturnedOutsideRoot ==
    /\ FindingNearest
    /\ ret.raised = ""
    /\ ~is_safe_path(DocsBaseDir, ret.dir)


(***************************************************************************)
(* Claims about markers of missing fragments (resolve_snippets).           *)
(***************************************************************************)
\* no fragment file is stored for the name: not under the name itself and,
\* for a name without the .mdx ending, not under the name with .mdx added
MissingFragment(name) ==
    /\ ~Stored(SnippetsDir \o <<name>>)
    /\ (EndsWith(name, ".mdx") \/ ~Stored(SnippetsDir \o <<name \o ".mdx">>))

\* the comment that names the missing fragment
NotFoundComment(name) == "<!-- Snippet " \o name \o " not found -->"

\* a document is resolved at the default depth and has a marker of the
\* fragment name, for which no file is stored
ResolvesMissing(name) ==
    /\ call.op = "resolve_snippets"
    /\ call.max_depth = DefaultMaxDepth
    /\ Contains(call.content, Marker(name))
    /\ MissingFragment(name)

\* the body without the comments for the name is the body that the same
\* call returns for the document without the markers of the name
RestAsWithout(name) ==
    Replace(ret.text, NotFoundComment(name), "")
        = resolve_snippets(Replace(call.content, Marker(name), ""),
                           call.max_depth, call.cache).text

\* C15: a fragment marker whose file is missing is replaced by a visible
\* inline comment that names the missing fragment; the load of the
\* containing document still succeeds and every other part of the body is
\* returned as for a document without that marker.
C15_MissingFragmentInlineComment ==
    \A name \in SnippetNames \cup {LongFragment} :
        ResolvesMissing(name) =>
            /\ ret.raised = ""
            /\ Contains(ret.text, NotFoundComment(name))
            /\ ~Contains(ret.text, Marker(name))
            /\ RestAsWithout(name)

\* C15 for the calls in which no existence test raises
C15_ReturnedHasInlineComment ==
    \A name \in SnippetNames \cup {LongFragment} :
        (ResolvesMissing(name) /\ ret.raised = "") =>
            /\ Contains(ret.text, NotFoundComment(name))
            /\ ~Contains(ret.text, Marker(name))
            /\ RestAsWithout(name)

\* the only marker of the document names a fragment that cannot be stored,
\* and the call raised
C15_RaisedOnMissing ==
    /\ \E name \in SnippetNames \cup {LongFragment} : ResolvesMissing(name) /\ call.content = Marker(name)
    /\ ret.raised # ""


(***************************************************************************)
(* Claims about listDirectory (list_directory).                            *)
(***************************************************************************)
Listing == call.op = "list_directory"

\* the input is a directory that the serving user may read
ReadableDirectory(p) ==
    /\ Stat(p).err = "OK"
    /\ NodeAt(Stat(p).at).kind = "dir"
    /\ NodeAt(Stat(p).at).mode # "none"

\* the names in the list are in strictly ascending order
Ascending(names) == \A i \in 1..(Len(names) - 1) : StrLess(names[i], names[i + 1])

\* the two lists are the subdirectories, each with a trailing separator,
\* and the document files of the directory at p, each in ascending order
ListsEntriesOf(p) ==
    /\ Range(ret.dirs) = {PathName(n.path) \o "/" : n \in {e \in Entries(Stat(p).at) : e.kind = "dir"}}
    /\ Range(ret.files) = {PathName(n.path) : n \in {e \in Entries(Stat(p).at) :
                               e.kind = "file" /\ PathSuffix(e.path) \in DocSuffixes}}
    /\ Ascending(ret.dirs)
    /\ Ascending(ret.files)

\* C16: listDirectory returns subdirectory names and document file names
\* each sorted ascending, every directory name carrying a trailing
\* separator, and only files with the document extension included; for an
\* input that is not a directory or that cannot be read for lack of
\* permission it returns two empty lists instead of raising.
C16_ListsSortedOrEmpty ==
    Listing =>
        /\ ret.raised = ""
        /\ IF ReadableDirectory(call.dir_path)
           THEN ListsEntriesOf(call.dir_path)
           ELSE ret.dirs = << >> /\ ret.files = << >>

\* C16 for the calls that return
C16_ReturnedSortedOrEmpty ==
    (Listing /\ ret.raised = "") =>
        IF ReadableDirectory(call.dir_path)
        THEN ListsEntriesOf(call.dir_path)
        ELSE ret.dirs = << >> /\ ret.files = << >>

\* the input is no directory, and the call raised
C16_RaisedOnNonDirectory ==
    Listing /\ ret.raised = "OSError" /\ Stat(call.dir_path).err = "ENAMETOOLONG"

\* the input is below a directory that may not be searched, and the call
\* raised
C16_RaisedOnPermission ==
    Listing /\ ret.raised = "PermissionError" /\ Stat(call.dir_path).err = "EACCES"

\* a directory with several subdirectories and a file that is no document
\* was listed
C16_ListedSorted ==
    /\ Listing /\ ret.raised = ""
    /\ ReadableDirectory(call.dir_path)
    /\ Len(ret.dirs) > 1 /\ Len(ret.files) > 1
    /\ \E e \in Entries(Stat(call.dir_path).at) :
          e.kind = "file" /\ PathSuffix(e.path) \notin DocSuffixes


(***************************************************************************)
(* Claims about the effects of the retrieval operations.                   *)
(***************************************************************************)
\* C17: no operation of the retrieval core (resolve, listDirectory,
\* nearestAncestor, loadDocument, rank, notFound, as _fetch_single_path
\* composes them) creates, modifies or deletes anything in the document tree
\* or the snippets directory; the only state any of them changes is the
\* fragment cache and the index cache.
C17_TreeNeverWritten == [][tree' = tree /\ restaged' = restaged]_vars

\* a request listed a directory, loading a document with a fragment marker,
\* and searched: both caches hold an entry and the tree is as staged
C17_Witness ==
    /\ Fetching
    /\ ret.raised = ""
    /\ "plain.mdx" \in DOMAIN snippet_cache
    /\ PathStr(DocsBaseDir) \in DOMAIN mdx_file_cache
    /\ tree = Tree0


(***************************************************************************)
(* Claims about suggestFromPath (get_matching_paths).                      *)
(***************************************************************************)
Suggesting == call.op = "get_matching_paths"

\* the final segment of the path
FinalSegment(path) == Split(path, "/")[Len(Split(path, "/"))]

\* a fragment starts at position a of the name: at its start, after a
\* separator, or at an upper-case letter
StartsFragment(name, a) ==
    a = 1 \/ Char(name, a - 1) \in {"-", "_"} \/ Char(name, a) \in DOMAIN ToLower

\* a fragment ends at position b of the name: at its end, before a
\* separator, or before an upper-case letter
EndsFragment(name, b) ==
    b = Len(name) \/ Char(name, b + 1) \in {"-", "_"} \/ Char(name, b + 1) \in DOMAIN ToLower

\* the fragments of the name between separators and case boundaries, in
\* lower case and without outer blanks, those of length <= 2 left out
Fragments(name) ==
    {f \in {Strip(Lower(Slice(name, ab[1], ab[2]))) :
              ab \in {x \in (1..Len(name)) \X (1..Len(name)) :
                        /\ x[1] <= x[2]
                        /\ StartsFragment(name, x[1]) /\ EndsFragment(name, x[2])
                        /\ \A k \in x[1]..x[2] : Char(name, k) \notin {"-", "_"}
                        /\ \A k \in (x[1] + 1)..x[2] : Char(name, k) \notin DOMAIN ToLower}} :
        Len(f) > 2}

\* the union of the candidates and the extra keywords: split on white
\* space, in lower case, each once
KeywordUnion(candidates, extra) ==
    {Lower(w) : w \in UNION {Range(Words(k)) : k \in candidates \cup Range(extra)}}

\* the output for what rank returns: empty when it has no match
SuggestionBlock(paths) ==
    IF Len(paths) = 0 THEN ""
    ELSE "**Suggested paths based on your query:**\n\n"
         \o Join([i \in DOMAIN paths |-> "- " \o Backquote \o paths[i] \o Backquote], "\n")

\* the call returned the output for what rank returns for the union, in
\* one of its orders, and empty output without a search for no keyword
FeedsUnionToRank(union) ==
    /\ ret.raised = ""
    /\ IF union = {}
       THEN ret.text = "" /\ mdx_file_cache = << >>
       ELSE \E keywords \in Orders(union) :
               ret.text = SuggestionBlock(
                   search_documents(keywords, DocsBaseDir, DefaultLimit, call.walked).paths)

\* C18 as stated: suggestFromPath derives keyword candidates only from the
\* final segment of the query path, split on separators and case boundaries
\* with fragments of length <= 2 discarded, merges them with the extra
\* keywords after lowercasing and de-duplicating (multi-word keywords split
\* on whitespace), feeds the union to rank, and returns empty output, not an
\* error, when the union is empty or rank finds no match.
C18_SuggestsFromFinalSegment ==
    Suggesting =>
        FeedsUnionToRank(KeywordUnion(Fragments(FinalSegment(call.doc_path)),
                                      call.query_keywords))

\* C18: as stated, with the candidates derived from the final segment
\* without its trailing document extension (.mdx or .md).
C18_SuggestsFromFinalSegmentStem ==
    Suggesting =>
        FeedsUnionToRank(KeywordUnion(Fragments(WithoutDocSuffix(FinalSegment(call.doc_path))),
                                      call.query_keywords))

\* a path whose earlier segment names a keyword that documents have and
\* whose final segment does not was asked without extra keywords, a search
\* was made, and the output is empty
C18_Witness ==
    /\ Suggesting
    /\ call.doc_path = "streaming/zzz"
    /\ call.query_keywords = << >>
    /\ PathStr(DocsBaseDir) \in DOMAIN mdx_file_cache
    /\ ret.raised = "" /\ ret.text = ""

\* the final segment has a document extension, and the output lists the
\* documents that match the fragments without it
C18_StemSuggested ==
    /\ Suggesting
    /\ call.doc_path = "basics/teams.mdx"
    /\ call.query_keywords = << >>
    /\ Contains(ret.text, "Suggested paths")


(***************************************************************************)
(* Claims about the title of a loaded document (format_file_content).      *)
(***************************************************************************)
\* the upper-case letter of each lower-case letter
ToUpper ==
    [c \in {Char(LowerChars, i) : i \in 1..Len(LowerChars)} |->
        Char(UpperChars, CHOOSE i \in 1..Len(LowerChars) : Char(LowerChars, i) = c)]

\* the word with its first letter in upper case
Capitalized(word) ==
    IF Len(word) = 0 THEN ""
    ELSE (IF Char(word, 1) \in DOMAIN ToUpper THEN ToUpper[Char(word, 1)] ELSE Char(word, 1))
         \o Slice(word, 2, Len(word))

\* the name with its separators replaced by spaces and each word capitalized
SpacedAndCapitalized(name) ==
    Join([i \in DOMAIN Split(Replace(Replace(name, "-", " "), "_", " "), " ") |->
            Capitalized(Split(Replace(Replace(name, "-", " "), "_", " "), " ")[i])], " ")

\* a document was formatted that could be read and whose frontmatter is a
\* mapping without a title
FormattedUntitled ==
    /\ call.op = "format_file_content"
    /\ ret.raised = ""
    /\ ReadText(call.file_path).err = ""
    /\ parse_frontmatter(ReadText(call.file_path).text).frontmatter.type = "dict"
    /\ "title" \notin DOMAIN parse_frontmatter(ReadText(call.file_path).text).frontmatter.val

\* the title shown: the first line of the response after its heading mark
TitleShown == Slice(Split(ret.text, "\n")[1], 3, Len(Split(ret.text, "\n")[1]))

BothDone ==
    /\ call.op = "concurrent"
    /\ \A t \in DOMAIN requests : requests[t].pc = "done"

\* the request run alone on empty caches, and run after another request
\* that ran alone on empty caches
Alone(q) == resolve_snippets(q.content, DefaultMaxDepth, << >>)

After(first, q) == resolve_snippets(q.content, DefaultMaxDepth, Alone(first).pr.cache)

\* the fragment caches that the two requests leave when one runs after the
\* other, or one of them alone
SequentialCaches ==
    { Alone(requests[1]).pr.cache, Alone(requests[2]).pr.cache,
      After(requests[1], requests[2]).pr.cache, After(requests[2], requests[1]).pr.cache }

\* the load of thread t returned what it returns alone, or after the other
LoadAsSequential(t) ==
    /\ requests[t].raised = ""
    /\ requests[t].text \in { Alone(requests[t]).text,
                              After(requests[3 - t], requests[t]).text }

\* every entry of the fragment cache holds a value that a sequential run
\* stores under its name
FragmentsAsSequential ==
    \A name \in DOMAIN snippet_cache :
        \E cache \in SequentialCaches :
            name \in DOMAIN cache /\ cache[name] = snippet_cache[name]

\* the search of thread t returned what it returns alone for one of the
\* listings that a scan can yield, and the index cache holds such a listing
SearchAsSequential(t) ==
    /\ requests[t].raised = ""
    /\ \E walked \in walk_mdx_files(DocsBaseDir, << >>) :
          requests[t].paths
            = search_documents(requests[t].keywords, DocsBaseDir, DefaultLimit, walked).paths
    /\ \E walked \in walk_mdx_files(DocsBaseDir, << >>) :
          mdx_file_cache[PathStr(DocsBaseDir)] = walked.files

\* C20: when two requests concurrently make the first access to an
\* unpopulated entry of the fragment cache or of the index cache, every
\* interleaving ends with the entry holding the value a single sequential
\* access would have stored, and each request returns the result it would
\* have returned running alone (or, at least, running after the other).
C20_RacesAreBenign ==
    BothDone =>
        /\ FragmentsAsSequential
        /\ \A t \in DOMAIN requests :
              IF requests[t].kind = "load" THEN LoadAsSequential(t)
              ELSE SearchAsSequential(t)

\* C20 for the index cache
C20_IndexRacesAreBenign ==
    (BothDone /\ requests[1].kind = "search") =>
        \A t \in DOMAIN requests : SearchAsSequential(t)

\* C20 for the fragment cache and documents whose fragments do not include
\* themselves
C20_AcyclicRacesAreBenign ==
    (/\ BothDone
     /\ \A t \in DOMAIN requests :
           requests[t].content = Marker("plain.mdx") \o " and " \o Marker("nope"))
    => FragmentsAsSequential /\ \A t \in DOMAIN requests : LoadAsSequential(t)

\* two requests loaded the same document, whose fragment includes itself,
\* and one returned a text that no sequential run returns
C20_RaceChangedResult ==
    /\ BothDone
    /\ requests[1].kind = "load"
    /\ requests[1].content = requests[2].content
    /\ \E t \in DOMAIN requests : ~LoadAsSequential(t)

\* both searches scanned, and the second store replaced the first listing
C20_BothScanned ==
    /\ BothDone
    /\ \A t \in DOMAIN requests : requests[t].kind = "search" /\ requests[t].walked.scanned
    /\ requests[1].walked.files # requests[2].walked.files

(***************************************************************************)
(* Claims about the fragment cache across documents.                       *)
(***************************************************************************)
\* the second of two documents was resolved at the default depth
SecondLoad ==
    /\ call.op = "resolve_snippets"
    /\ call.n = 2
    /\ call.max_depth = DefaultMaxDepth
    /\ ret.raised = ""

\* the body of the stored fragment f, as replace_snippet hands it on
BodyOf(f) == Strip(parse_frontmatter(ReadText(PathJoin(SnippetsDir, f)).text).body)

\* the fragments that include another fragment: the name in a marker of f,
\* and the name under which the fragment included by f is cached
Including == { <<"a.mdx", "b">>, <<"b", "a.mdx">> }

\* the file of the fragment named f in a marker
FileOf(f) == IF EndsWith(f, ".mdx") THEN f ELSE f \o ".mdx"

\* the body of f with its marker replaced by the value v
BodyWith(body, mt, v) ==
    Slice(body, 1, mt.start - 1) \o v \o Slice(body, mt.end + 1, Len(body))

\* the document that is one marker of f shows, for the fragment g that f
\* includes, the value that a document with a marker of g gets
ShowsCachedValueOf(f, g) ==
    ret.text = BodyWith(BodyOf(FileOf(f)), NextSnippet(BodyOf(FileOf(f)), 1), snippet_cache[g])

\* C21: fragment results are cached by fragment name alone: any two
\* documents that include the same fragment, at whatever nesting depth and
\* in whatever order they are loaded, get the identical expanded value for
\* it, namely the value computed the first time the fragment was resolved.
\* Here: after two loads, the document that includes g through f shows for g
\* the text that the cache serves to a document that includes g itself.
C21_SameValueAtEveryDepth ==
    SecondLoad =>
        \A fg \in Including :
            (call.content = Marker(fg[1]) /\ fg[2] \in DOMAIN snippet_cache)
                => ShowsCachedValueOf(fg[1], fg[2])

\* a marker whose name the cache has is replaced by the cached text, and
\* the cache keeps every entry that it had
C21_CachedValueServedByName ==
    SecondLoad =>
        /\ \A n \in DOMAIN call.cache :
              /\ n \in DOMAIN snippet_cache /\ snippet_cache[n] = call.cache[n]
              /\ call.content = Marker(n) => ret.text = call.cache[n]

\* b was loaded first and a.mdx second: a.mdx shows one level of b, the
\* cache serves three
C21_DepthChangedValue ==
    /\ SecondLoad
    /\ call.content = Marker("a.mdx")
    /\ ret.text = "AB" \o Marker("a.mdx")
    /\ snippet_cache["b"] = "BAB" \o Marker("a.mdx")

\* a.mdx was loaded first and b second: both show the same text for b
C21_SameValueInOtherOrder ==
    /\ SecondLoad
    /\ call.content = Marker("b")
    /\ "a.mdx" \in DOMAIN call.cache
    /\ call.cache["a.mdx"] = "A" \o ret.text

(***************************************************************************)
(* Claims about the index cache (walk_mdx_files).                          *)
(***************************************************************************)
\* the step is a search with keywords, which enumerates its root
Enumerates ==
    /\ call' # call
    /\ call'.op = "search_documents"
    /\ Len(call'.keywords) > 0

\* no entry of the index cache is changed or removed by the step
IndexEntriesKept ==
    \A key \in DOMAIN mdx_file_cache :
        key \in DOMAIN mdx_file_cache' /\ mdx_file_cache'[key] = mdx_file_cache[key]

\* the root of the search has an entry once the step is made
IndexPopulated == PathStr(call'.base_dir) \in DOMAIN mdx_file_cache'

\* the search of a root that had an entry returns what a ranking of the
\* documents of that entry returns, whatever the tree has become
RanksCachedListing ==
    PathStr(call'.base_dir) \in DOMAIN mdx_file_cache =>
        ret' = search_documents(call'.keywords, call'.base_dir, call'.limit,
                                Walked(mdx_file_cache[PathStr(call'.base_dir)], FALSE))

\* C22: the index cache entry for a root is populated on the first
\* buildIndex/rank call for that root and is never changed or removed
\* afterwards: every later rank call for that root enumerates exactly the
\* listing computed on first access, even after documents have been added
\* to or removed from the tree.
C22_IndexPopulatedOnFirstCallAndKept ==
    [][/\ IndexEntriesKept
       /\ Enumerates => (IndexPopulated /\ RanksCachedListing)]_vars

\* an entry is never changed or removed, and a search of a root with an
\* entry ranks the documents of the entry; a search that returns leaves an
\* entry for its root
C22_IndexKeptOncePopulated ==
    [][/\ IndexEntriesKept
       /\ Enumerates => /\ RanksCachedListing
                        /\ ret'.raised = "" => IndexPopulated]_vars

\* the first enumeration of a root that is not there raised and left no entry
C22_RaisedWithoutEntry ==
    /\ call.op = "search_documents"
    /\ Len(call.keywords) > 0
    /\ ret.raised = "FileNotFoundError"
    /\ PathStr(call.base_dir) \notin DOMAIN mdx_file_cache

\* after a restaging the second search of the root ranked the listing of
\* the first: the document added is not found, the documents removed are
\* still in the listing
C22_StaleListingRanked ==
    /\ call.op = "search_documents"
    /\ call.n = 2
    /\ call.base_dir = DocsBaseDir
    /\ call.keywords = <<"streaming">>
    /\ restaged.removed # {}
    /\ PathStr(DocsBaseDir \o <<"x.mdx">>) \in Range(mdx_file_cache[PathStr(DocsBaseDir)])
    /\ "new.mdx" \notin Range(ret.paths)
    /\ Len(ret.paths) > 0

(***************************************************************************)
(* Claims about the score of rank (calculate_final_score).                 *)
(***************************************************************************)
\* the lines of the stored document at relative_path under base_dir
LinesOf(base_dir, relative_path) ==
    Split(NodeAt(PathJoin(base_dir, relative_path)).text, "\n")

\* the (line, keyword) pairs in which the keyword is a substring of the
\* line, letter case ignored
OccurrencePairs(lines, keywords) ==
    {pair \in (DOMAIN lines) \X (DOMAIN keywords) :
        Contains(Lower(lines[pair[1]]), Lower(keywords[pair[2]]))}

\* the line begins with a heading marker or contains the word "title"
HeadingOrTitle(line) ==
    (Len(line) > 0 /\ Char(line, 1) = "#") \/ Contains(Lower(line), "title")

\* the score as documented, from the lines of a document
DocumentedScore(relative_path, lines, keywords, pairs) ==
    Cardinality(pairs) * 1
    + Cardinality({pair \in pairs : HeadingOrTitle(lines[pair[1]])}) * 3
    + calculate_path_relevance(relative_path, keywords) * 2
    + Cardinality({keywords[pair[2]] : pair \in pairs}) * 5
    + (IF Cardinality({keywords[pair[2]] : pair \in pairs}) = Len(keywords) THEN 10 ELSE 0)

ScoreAsDocumented(base_dir, relative_path, keywords) ==
    DocumentedScore(relative_path, LinesOf(base_dir, relative_path), keywords,
                    OccurrencePairs(LinesOf(base_dir, relative_path), keywords))

\* C23: for every document and keyword list, the score rank sorts by equals
\* totalOccurrences*1 + titleOccurrences*3 + pathRelevance*2 +
\* |matchedKeywords|*5 + (10 if |matchedKeywords| equals the number of
\* requested keywords, else 0), where totalOccurrences counts the (line,
\* keyword) pairs in which the keyword is a case-insensitive substring of
\* the line and titleOccurrences counts those pairs whose line begins with
\* a heading marker or contains the word "title".
C23_SortKeyIsDocumentedScore ==
    Searched =>
        \A i \in DOMAIN ret.ranked :
            calculate_final_score(ret.ranked[i], Len(call.keywords))
                = ScoreAsDocumented(call.base_dir, ret.ranked[i].path, call.keywords)

\* a search of the documentation root for two keywords ranked
\* basics/teams.mdx, which has both, one of them on a line with the word
\* "title" and no heading marker: 2*1 + 1*3 + 1*2 + 2*5 + 10
C23_Witness ==
    /\ Searched
    /\ call.keywords = <<"streaming", "Agents">>
    /\ call.base_dir = DocsBaseDir
    /\ \E i \in DOMAIN ret.ranked :
          /\ ret.ranked[i].path = "basics/teams.mdx"
          /\ ret.ranked[i].title_matches = 1
          /\ calculate_final_score(ret.ranked[i], Len(call.keywords)) = 27

(***************************************************************************)
(* Claims about the order of rank (search_documents).                      *)
(***************************************************************************)
\* where the document at relative_path stands in the listing enumerated
PlaceIn(listing, base_dir, relative_path) ==
    CHOOSE k \in DOMAIN listing : listing[k] = PathStr(PathJoin(base_dir, relative_path))

\* the listing that the search enumerated: the entry of its root
Enumerated == mdx_file_cache[PathStr(call.base_dir)]

\* the search ranked documents
RankedSome == Searched /\ ret.raised = "" /\ Len(ret.ranked) > 0

\* the entries i < j of the ranking stand in descending order of score, in
\* the order of the enumeration when the scores are equal
InRankOrder(i, j) ==
    \/ ScoreAsDocumented(call.base_dir, ret.ranked[i].path, call.keywords)
         > ScoreAsDocumented(call.base_dir, ret.ranked[j].path, call.keywords)
    \/ /\ ScoreAsDocumented(call.base_dir, ret.ranked[i].path, call.keywords)
            = ScoreAsDocumented(call.base_dir, ret.ranked[j].path, call.keywords)
       /\ PlaceIn(Enumerated, call.base_dir, ret.ranked[i].path)
            < PlaceIn(Enumerated, call.base_dir, ret.ranked[j].path)

\* C24: rank returns documents in descending order of final score, and any
\* two documents with equal final score appear in the order in which they
\* were first encountered during enumeration of the index.
C24_DescendingScoreThenEncounterOrder ==
    RankedSome =>
        /\ ReturnsRankingPrefix
        /\ \A i, j \in DOMAIN ret.ranked : i < j => InRankOrder(i, j)

\* two documents with the same score were returned
C24_Tie ==
    /\ RankedSome
    /\ \E i, j \in DOMAIN ret.paths :
          /\ i < j
          /\ ScoreAsDocumented(call.base_dir, ret.paths[i], call.keywords)
               = ScoreAsDocumented(call.base_dir, ret.paths[j], call.keywords)

\* x.mdx and basics/teams.mdx have the same score and x.mdx was enumerated
\* first: it is returned first, against the order of the paths
C24_Witness ==
    /\ RankedSome
    /\ \E i, j \in DOMAIN ret.paths :
          /\ i < j
          /\ ret.paths[i] = "x.mdx"
          /\ ret.paths[j] = "basics/teams.mdx"
          /\ ScoreAsDocumented(call.base_dir, ret.paths[i], call.keywords)
               = ScoreAsDocumented(call.base_dir, ret.paths[j], call.keywords)
          /\ PlaceIn(Enumerated, call.base_dir, "x.mdx")
               < PlaceIn(Enumerated, call.base_dir, "basics/teams.mdx")

(***************************************************************************)
(* Claims about the enumeration of the index (walk_mdx_files).             *)
(***************************************************************************)
\* every directory from the root of the search down to dir can be read
ReadableBelow(base_dir, dir) ==
    \A k \in Len(base_dir)..Len(dir) :
        /\ HasNode(Slice(dir, 1, k))
        /\ NodeAt(Slice(dir, 1, k)).kind = "dir"
        /\ NodeAt(Slice(dir, 1, k)).mode # "none"

\* the documents in the readable directories of the root of the search
ReadableDocuments(base_dir) ==
    { PathStr(n.path) : n \in
        {d \in tree : /\ d.kind = "file"
                      /\ PathSuffix(d.path) \in DocSuffixes
                      /\ Len(d.path) > Len(base_dir)
                      /\ Slice(d.path, 1, Len(base_dir)) = base_dir
                      /\ ReadableBelow(base_dir, Parent(d.path))} }

\* the search enumerated its root: a search without keywords does not
EnumeratedRoot == Searched /\ Len(call.keywords) > 0

\* the listing has each document of the readable directories once
ListsReadableDocuments ==
    /\ PathStr(call.base_dir) \in DOMAIN mdx_file_cache
    /\ Range(Enumerated) = ReadableDocuments(call.base_dir)
    /\ Len(Enumerated) = Cardinality(ReadableDocuments(call.base_dir))

\* C25: index enumeration never fails outright: for every root passed to
\* buildIndex/rank, a permission error on any subdirectory is swallowed, the
\* documents of every readable directory are still enumerated, and no
\* exception reaches the caller.
C25_EnumerationNeverFails ==
    EnumeratedRoot => (ret.raised = "" /\ ListsReadableDocuments)

\* an enumeration that returns lists the documents of every readable
\* directory below the root, and nothing else
C25_ReturnedListsReadable ==
    (EnumeratedRoot /\ ret.raised = "") => ListsReadableDocuments

\* the enumeration of a root that is not there raised
C25_RaisedOnMissingRoot ==
    /\ EnumeratedRoot
    /\ call.base_dir = DocsBaseDir \o <<"missing">>
    /\ ret.raised = "FileNotFoundError"

\* the documentation root was enumerated past the directory that cannot be
\* read: its document is not listed, those of the other directories are
C25_UnreadableDirectorySkipped ==
    /\ EnumeratedRoot
    /\ call.base_dir = DocsBaseDir
    /\ ret.raised = ""
    /\ PathStr(DocsBaseDir \o <<"private", "in.mdx">>) \notin Range(Enumerated)
    /\ PathStr(DocsBaseDir \o <<"x.mdx">>) \in Range(Enumerated)
    /\ PathStr(DocsBaseDir \o <<"basics", "agents", "overview.mdx">>) \in Range(Enumerated)

(***************************************************************************)
(* Claims about the AgentOS and reference operations (agno_agentos,        *)
(* agno_reference).                                                        *)
(***************************************************************************)
\* the canonical location of p is the root or lies below it
LiesInRoot(p, root) ==
    /\ Len(Normalize(<< >>, root)) <= Len(Normalize(<< >>, p))
    /\ Slice(Normalize(<< >>, p), 1, Len(Normalize(<< >>, root))) = Normalize(<< >>, root)

\* the paths that the call handed to resolve: none for the overview and for
\* an unknown topic
HandedToResolve ==
    IF call.op = "agno_agentos"
    THEN (IF call.path = "" THEN {} ELSE {"agent-os/" \o StripChars(call.path, {"/"})})
    ELSE IF call.op = "agno_reference"
    THEN (IF StripChars(Strip(Lower(call.path)), {"/"}) = "" THEN {"reference"}
          ELSE IF StripChars(Strip(Lower(call.path)), {"/"}) \in REFERENCE_TOPICS
          THEN {"reference/" \o StripChars(Strip(Lower(call.path)), {"/"})}
          ELSE {})
    ELSE {}

\* resolve reports found = false for the path because its guard refuses it
RefusedByGuard(doc_path) ==
    /\ resolve_doc_path(doc_path, DocsBaseDir).raised = ""
    /\ ~resolve_doc_path(doc_path, DocsBaseDir).found
    /\ ~is_safe_path(DocsBaseDir, resolve_doc_path(doc_path, DocsBaseDir).path)

\* C26: the AgentOS and reference operations never return the content or
\* the listing of a location outside the documentation root: for every path
\* argument for which resolve reports found = false because of the
\* traversal guard, nothing is read from the returned location.
C26_NothingReadWhereGuardRefused ==
    \A doc_path \in HandedToResolve :
        RefusedByGuard(doc_path) =>
            /\ resolve_doc_path(doc_path, DocsBaseDir).path \notin ret.shown
            /\ \A p \in ret.shown : LiesInRoot(p, DocsBaseDir)

\* C26 for the reference operation, whose topics are the listed ones: what
\* it shows lies in the root, and the guard refuses none of its paths
C26_ReferenceShowsInsideRoot ==
    call.op = "agno_reference" =>
        /\ \A p \in ret.shown : LiesInRoot(p, DocsBaseDir)
        /\ \A doc_path \in HandedToResolve : ~RefusedByGuard(doc_path)

\* the AgentOS operation returned the content of a file outside the root,
\* at the location that resolve returned with found = false
C26_FileOutsideRootReturned ==
    /\ call.op = "agno_agentos"
    /\ call.path = "../../snippets/plain.mdx"
    /\ RefusedByGuard("agent-os/" \o call.path)
    /\ ret.shown = {DocsBaseDir \o <<"agent-os", "..", "..", "snippets", "plain.mdx">>}
    /\ ret.text = "# P\n*File: " \o Backquote \o "agent-os/../../snippets/plain.mdx"
                    \o Backquote \o "*\n\nplain"

\* the AgentOS operation returned the listing of a directory outside the root
C26_ListingOutsideRootReturned ==
    /\ call.op = "agno_agentos"
    /\ call.path = "../.."
    /\ RefusedByGuard("agent-os/" \o call.path)
    /\ ret.raised = ""
    /\ \E p \in ret.shown : ~LiesInRoot(p, DocsBaseDir)
    /\ Contains(ret.text, "- " \o Backquote \o "snippets/" \o Backquote)

\* the guard refused the path and nothing is stored at the location: the
\* AgentOS operation answers that the path is not found
C26_RefusedAndNotFound ==
    /\ call.op = "agno_agentos"
    /\ \E doc_path \in HandedToResolve : RefusedByGuard(doc_path)
    /\ ret.shown = {AgentOSDir}

(***************************************************************************)
(* Claims about the directory that the fallback listing shows              *)
(* (find_nearest_directory, _fetch_single_path).                           *)
(***************************************************************************)
\* C27: for every input path, including paths with ".." segments,
\* find_nearest_directory returns either the root itself or a directory that
\* lies inside the root, so the fallback listing never shows the contents of
\* a directory outside the root.
C27_NearestLiesInRoot ==
    (call.op = "find_nearest_directory" /\ ret.raised = "")
    => LiesInRoot(ret.dir, DocsBaseDir)

\* C27 for the paths that have no ".." segment
C27_NearestLiesInRootWithoutDotDot ==
    (/\ call.op = "find_nearest_directory"
     /\ ret.raised = ""
     /\ ~HasDotDotSegment(call.doc_path))
    => LiesInRoot(ret.dir, DocsBaseDir)

\* the directory returned for "../raw2/nope" is the directory next to the
\* root, under a label that leaves the root
C27_SiblingReturned ==
    /\ call.op = "find_nearest_directory"
    /\ call.doc_path = "../raw2/nope"
    /\ ret.raised = ""
    /\ Normalize(<< >>, ret.dir) = SiblingDir
    /\ ret.label = "../raw2"

\* the answer to a request for "../raw2/nope" lists the document of the
\* directory next to the root
C27_FallbackListsOutsideRoot ==
    /\ call.op = "fetch_single_path"
    /\ call.doc_path = "../raw2/nope"
    /\ ret.raised = ""
    /\ Contains(ret.text, "- " \o Backquote \o "../raw2/secret.mdx" \o Backquote)

(***************************************************************************)
(* Claims about the files that resolve_snippets reads.                     *)
(***************************************************************************)
\* the fragment names of the markers of a text, in order
RECURSIVE MarkerNamesFrom(_, _)
MarkerNamesFrom(content, pos) ==
    IF NextSnippet(content, pos).end = 0 THEN << >>
    ELSE <<NextSnippet(content, pos).file>>
         \o MarkerNamesFrom(content, NextSnippet(content, pos).end + 1)

\* the name is relative and has no ".." segment
PlainName(name) ==
    /\ ~StartsWith(name, "/")
    /\ \A i \in DOMAIN Split(name, "/") : Split(name, "/")[i] # ".."

\* C28: for every fragment name appearing in an inclusion marker, including
\* names with ".." segments or absolute paths, resolve_snippets reads only
\* files located inside the snippets directory.
C28_ReadsOnlyInsideSnippetsDir ==
    call.op = "resolve_snippets" =>
        \A i \in DOMAIN ret.reads : LiesInRoot(ret.reads[i], SnippetsDir)

\* C28 for documents whose markers name fragments by relative names
\* without ".." segments (as the fragments of this tree all do)
C28_PlainNamesReadInsideSnippetsDir ==
    (/\ call.op = "resolve_snippets"
     /\ \A i \in DOMAIN MarkerNamesFrom(call.content, 1) :
            PlainName(MarkerNamesFrom(call.content, 1)[i]))
    => \A i \in DOMAIN ret.reads : LiesInRoot(ret.reads[i], SnippetsDir)

\* a marker with a ".." segment put a document of the documentation root in
\* the place of the marker
C28_ReadThroughDotDot ==
    /\ call.op = "resolve_snippets"
    /\ call.content = Marker("../raw/x.mdx")
    /\ call.max_depth > 0
    /\ ret.reads = <<SnippetsDir \o <<"..", "raw", "x.mdx">> >>
    /\ ret.text = "x Agents\nthe Agents"

\* a marker with an absolute path put a file from outside the staged
\* documentation in the place of the marker
C28_ReadAbsolutePath ==
    /\ call.op = "resolve_snippets"
    /\ call.content = Marker("/pkg/.docs/raw2/secret.mdx")
    /\ call.max_depth > 0
    /\ ret.reads = <<SiblingDir \o <<"secret.mdx">> >>
    /\ ret.text = "secret agents"

(***************************************************************************)
(* Claims about the result of a load after other loads (read_mdx_file,     *)
(* resolve_snippets).                                                      *)
(***************************************************************************)
\* the body that the document of this call gets in a process that has
\* loaded nothing before
BodyLoadedFirst == resolve_snippets(call.content, call.max_depth, << >>)

\* no value of the cache that the call found has a marker left in it
CacheFullyExpanded ==
    \A name \in DOMAIN call.cache : NextSnippet(call.cache[name], 1).end = 0

\* C29: loading a document returns the same body whatever documents were
\* loaded earlier in the process: for every document and every two reachable
\* states of the fragment cache, with an unchanged file tree, the load
\* returns identical text.  Here: the state that an earlier load left, and
\* the empty cache of a process that has loaded nothing.
C29_SameBodyWhateverLoadedEarlier ==
    call.op = "resolve_snippets" =>
        /\ ret.raised = BodyLoadedFirst.raised
        /\ ret.text = BodyLoadedFirst.text

\* C29 for the states of the cache whose values are fully expanded, as they
\* are when no fragment includes a fragment
C29_SameBodyOnExpandedCache ==
    (call.op = "resolve_snippets" /\ CacheFullyExpanded) =>
        /\ ret.raised = BodyLoadedFirst.raised
        /\ ret.text = BodyLoadedFirst.text

\* a document that includes a.mdx, loaded after a document that includes b,
\* got another body than it gets when it is loaded first
C29_EarlierLoadChangedBody ==
    /\ call.op = "resolve_snippets"
    /\ call.n = 2
    /\ call.content = Marker("a.mdx")
    /\ call.max_depth = DefaultMaxDepth
    /\ "b" \in DOMAIN call.cache
    /\ ret.text = "AB" \o Marker("a.mdx")
    /\ BodyLoadedFirst.text = "ABA" \o Marker("b")

\* a second load found an entry of a fully expanded fragment and returned
\* the body of a first load
C29_ExpandedEntryServed ==
    /\ call.op = "resolve_snippets"
    /\ call.n = 2
    /\ call.content = "<snippet  file='plain'>"
    /\ call.max_depth = DefaultMaxDepth
    /\ "plain" \in DOMAIN call.cache
    /\ CacheFullyExpanded
    /\ ret.text = BodyLoadedFirst.text

(***************************************************************************)
(* Claims about the writes of the fragment cache (replace_snippet).        *)
(***************************************************************************)
\* the fragment that a marker names can be read: under the name itself or,
\* for a name without the .mdx ending, under the name with .mdx added
Loadable(name) ==
    \/ /\ PathExists(PathJoin(SnippetsDir, name)) = "yes"
       /\ ReadText(PathJoin(SnippetsDir, name)).err = ""
    \/ /\ PathExists(PathJoin(SnippetsDir, name)) = "no"
       /\ ~EndsWith(name, ".mdx")
       /\ PathExists(PathJoin(SnippetsDir, name \o ".mdx")) = "yes"
       /\ ReadText(PathJoin(SnippetsDir, name \o ".mdx")).err = ""

\* the step leaves the entry of the name as it is
EntryKept(name) == name \in DOMAIN snippet_cache' /\ snippet_cache'[name] = snippet_cache[name]

\* C30: the fragment cache is write-once per name: after a fragment name
\* first gets an entry, no later step of any document load (including the
\* resolution of a fragment that includes itself or of nested fragments)
\* changes the value stored under that name; markers for missing or
\* unreadable fragments are never stored.
C30_CacheWrittenOncePerName ==
    [][/\ \A name \in DOMAIN snippet_cache : EntryKept(name)
       /\ \A name \in DOMAIN snippet_cache' : Loadable(name)]_vars

\* C30 without the write-once part: no step removes an entry, and no entry
\* is stored for a fragment that is missing or cannot be read
C30_EntriesStayAndAreOfLoadedFragments ==
    [][/\ DOMAIN snippet_cache \subseteq DOMAIN snippet_cache'
       /\ \A name \in DOMAIN snippet_cache' : Loadable(name)]_vars

\* C30 for the fragments that include no fragment
C30_PlainFragmentsWrittenOnce ==
    [][\A name \in DOMAIN snippet_cache :
          NextSnippet(BodyOf(FileOf(name)), 1).end = 0 => EntryKept(name)]_vars

\* during the first load, of a document with a marker of self.mdx, the entry
\* of self.mdx has the second of the three values that it gets
C30_EntryOverwritten ==
    /\ call.op = "read_mdx_file"
    /\ call.n = 1
    /\ call.content = Marker("self.mdx")
    /\ "self.mdx" \in DOMAIN snippet_cache
    /\ snippet_cache["self.mdx"] = "me me " \o Marker("self.mdx")

\* a load with markers of a missing and of an unreadable fragment has
\* returned, and the cache has an entry for neither
C30_NothingStoredForMissing ==
    /\ call.op = "read_mdx_file"
    /\ call.content \in { Marker("plain.mdx") \o " and " \o Marker("nope"), Marker("locked.mdx") }
    /\ requests[1].pc = "done"
    /\ DOMAIN snippet_cache \cap {"nope", "locked.mdx"} = {}
    /\ (call.n = 1 /\ call.content # Marker("locked.mdx") => DOMAIN snippet_cache = {"plain.mdx"})

====
